---- MODULE Spec2Model ----
(***************************************************************************)
(* A state-machine model of the chat dialog controller of Psi              *)
(* (src/src/chatdlg.cpp): the hold/flush queue of message views, the       *)
(* history preload, the unread counter, the encryption-transition views    *)
(* and the outbound chat-state machine.                                    *)
(*                                                                         *)
(* The dialog is single threaded: every slot runs to completion on the GUI *)
(* event loop, so every action below is one whole handler, including the   *)
(* handlers it calls.  Handlers are written as operators from a record of  *)
(* the dialog's fields ("this") to the record after the call; an action    *)
(* applies one handler to the current fields and commits the result.       *)
(***************************************************************************)
EXTENDS Integers, Sequences, FiniteSets, TLC

VARIABLES
    \* ---- fields of ChatDlg
    pending_,              \* int: unread counter
    keepOpen_,             \* bool: a remote view was displayed less than 1 s ago
    warnSend_,             \* bool: confirm the next send (encryption was disabled)
    transid_,              \* int: outstanding encrypted-send transaction, -1 = none
    lastWasEncrypted_,     \* bool
    historyState,          \* bool
    contactChatState_,     \* XMPP::ChatState of the peer
    lastChatState_,        \* XMPP::ChatState last tracked for ourselves
    sendComposingEvents_,  \* bool: the peer asked for composing events
    isComposing_,          \* bool
    composingTimer_,       \* -1 = nullptr, else ticks left until the next timeout
    delayedMessages,       \* [alloc, list]: alloc = FALSE is nullptr
    status_,               \* last status type shown for the contact
    m_,                    \* the message being sent
    \* ---- collaborators the handlers write to
    chatView,              \* the views handed to chatView()->dispatchMessage, in order
    chatEditEnabled,       \* chatEdit()->isEnabled()
    sent,                  \* what was handed to the account for transmission, in order
    keepOpenTimers,        \* ticks left of every pending keepOpen_ single shot
    warnSendTimers,        \* ticks left of every pending warnSend_ single shot
    pgpInFlight,           \* transaction ids the encryption transport has not completed
    \* ---- environment the handlers read
    isActiveTab,           \* TabbableWidget::isActiveTab()
    isMinimized,           \* QWidget::isMinimized()
    roster,                \* "none" | "unavailable" | "available": findRelevant(jid())
    accountAvailable,      \* account()->isAvailable()
    pgpEnabled,            \* isPgpEncryptionEnabled()
    options,               \* PsiOptions read by the dialog
    edb,                   \* "none" | "pending" | "done": the history request
    nextId,                \* number of messages created so far
    received,              \* the messages received from the network, in order
    typingIdle,            \* ticks since the user's last key press, -1 = none yet
    lastEvent,             \* the handler that ran last (and its outcome)
    \* ---- PsiIconset::Private
    status_icons,          \* [useServicesIcons, list, customList]
    iconsetRoster,         \* psi->roster: the loaded status icon sets, by name
    client2icon,           \* ClientIconMap: caps/client name prefix -> checks
    returned               \* the last call of a PsiIconset function and its result

vars == << pending_, keepOpen_, warnSend_, transid_, lastWasEncrypted_, historyState,
           contactChatState_, lastChatState_, sendComposingEvents_, isComposing_,
           composingTimer_, delayedMessages, status_, m_, chatView, chatEditEnabled,
           sent, keepOpenTimers, warnSendTimers, pgpInFlight, isActiveTab, isMinimized,
           roster, accountAvailable, pgpEnabled, options, edb, nextId, received,
           typingIdle, lastEvent, status_icons, iconsetRoster, client2icon, returned >>

envVars == << isActiveTab, isMinimized, roster, accountAvailable, pgpEnabled, options,
              edb, nextId, received >>

\* the user's typing is part of the environment too
userVars == << envVars, typingIdle >>

dlgVars == << pending_, keepOpen_, warnSend_, transid_, lastWasEncrypted_, historyState,
              contactChatState_, lastChatState_, sendComposingEvents_, isComposing_,
              composingTimer_, delayedMessages, status_, m_, chatView, chatEditEnabled,
              sent, keepOpenTimers, warnSendTimers, pgpInFlight, userVars, lastEvent >>

-----------------------------------------------------------------------------
(* Enumerations *)

StateNone      == "StateNone"
StateActive    == "StateActive"
StateComposing == "StateComposing"
StatePaused    == "StatePaused"
StateInactive  == "StateInactive"
StateGone      == "StateGone"
ChatState == { StateNone, StateActive, StateComposing, StatePaused, StateInactive, StateGone }

ComposingEvent == "ComposingEvent"
CancelEvent    == "CancelEvent"

\* MessageView::Type
Message_ == "Message"
System   == "System"
Status   == "Status"
Subject  == "Subject"
Urls     == "Urls"

\* Message::CarbonDir
NoCarbon == "NoCarbon"
Received == "Received"
Sent     == "Sent"

-----------------------------------------------------------------------------
(* Timers, in ticks of one second *)

ComposingTicks == 2     \* composingTimer_->start(2000)
KeepOpenTicks  == 1     \* QTimer::singleShot(1000, ...)
WarnSendTicks  == 3     \* QTimer::singleShot(3000, ...)
HistoryLimit   == 100   \* if (cnt > 100) cnt = 100

Min(a, b) == IF a < b THEN a ELSE b

-----------------------------------------------------------------------------
(* The dialog's fields as one record, and back *)

this == [ pending_ |-> pending_, keepOpen_ |-> keepOpen_, warnSend_ |-> warnSend_,
          transid_ |-> transid_, lastWasEncrypted_ |-> lastWasEncrypted_,
          historyState |-> historyState, contactChatState_ |-> contactChatState_,
          lastChatState_ |-> lastChatState_,
          sendComposingEvents_ |-> sendComposingEvents_, isComposing_ |-> isComposing_,
          composingTimer_ |-> composingTimer_, delayedMessages |-> delayedMessages,
          status_ |-> status_, m_ |-> m_, chatView |-> chatView,
          chatEditEnabled |-> chatEditEnabled, sent |-> sent,
          keepOpenTimers |-> keepOpenTimers, warnSendTimers |-> warnSendTimers,
          pgpInFlight |-> pgpInFlight ]

Commit(s) ==
    /\ pending_' = s.pending_
    /\ keepOpen_' = s.keepOpen_
    /\ warnSend_' = s.warnSend_
    /\ transid_' = s.transid_
    /\ lastWasEncrypted_' = s.lastWasEncrypted_
    /\ historyState' = s.historyState
    /\ contactChatState_' = s.contactChatState_
    /\ lastChatState_' = s.lastChatState_
    /\ sendComposingEvents_' = s.sendComposingEvents_
    /\ isComposing_' = s.isComposing_
    /\ composingTimer_' = s.composingTimer_
    /\ delayedMessages' = s.delayedMessages
    /\ status_' = s.status_
    /\ m_' = s.m_
    /\ chatView' = s.chatView
    /\ chatEditEnabled' = s.chatEditEnabled
    /\ sent' = s.sent
    /\ keepOpenTimers' = s.keepOpenTimers
    /\ warnSendTimers' = s.warnSendTimers
    /\ pgpInFlight' = s.pgpInFlight

-----------------------------------------------------------------------------
(* Messages and message views *)

\* An XMPP::Message as far as the dialog reads it.  id stands for the message's
\* identity and content: <<origin, n>> with origin "edb" (a stored event, n its
\* age rank, 1 = oldest), "net" (received, n its arrival number) or "own"
\* (composed here, n its creation number).
Msg(id, body, subject, urlList, wasEncrypted, carbon, events, chatState) ==
    [ id |-> id, body |-> body, subject |-> subject, urlList |-> urlList,
      wasEncrypted |-> wasEncrypted, carbonDirection |-> carbon,
      events |-> events, chatState |-> chatState ]

NoMsg == Msg(<<"none", 0>>, "", "", << >>, FALSE, NoCarbon, {}, StateNone)

\* A MessageView: of is the message it was built from (the view's content).
View(type, of, spooled, local, carbon, urls) ==
    [ type |-> type, of |-> of, spooled |-> spooled, local |-> local,
      carbonDirection |-> carbon, urls |-> urls ]

\* MessageView::fromHtml(msg, MessageView::System): a fresh view, no flag set
fromHtml(type, of) == View(type, of, FALSE, FALSE, NoCarbon, {})

\* QMap<QString, QString>::insert over the url list: a later description of
\* the same url replaces the earlier one.  The map is the set of its pairs.
RECURSIVE urlsMapOf(_)
urlsMapOf(urlList) ==
    IF urlList = << >> THEN {}
    ELSE LET u    == urlList[Len(urlList)]
             rest == urlsMapOf(SubSeq(urlList, 1, Len(urlList) - 1))
         IN  { p \in rest : p[1] # u[1] } \cup { u }

mapContains(map, key) == \E p \in map : p[1] = key

-----------------------------------------------------------------------------
(* The hold/flush queue and the display step *)

\* displayMessage without the isActiveTab() test
displayMessage_countsWhenActive(s, mv) ==
    LET shown  == [s EXCEPT !.chatView = Append(@, mv)]
        unread == mv.type # System /\ mv.type # Status /\ ~mv.spooled
                  /\ mv.carbonDirection # Sent
        counted == IF unread THEN [shown EXCEPT !.pending_ = @ + 1] ELSE shown
    IN  IF ~mv.local
        THEN [counted EXCEPT !.keepOpen_ = TRUE,
                             !.keepOpenTimers = @ \cup {KeepOpenTicks}]
        ELSE counted

\* ChatDlg::displayMessage
displayMessage(s, mv) ==
    LET shown  == [s EXCEPT !.chatView = Append(@, mv)]
        unread == mv.type # System /\ mv.type # Status /\ ~mv.spooled
                  /\ ~isActiveTab /\ mv.carbonDirection # Sent
        counted == IF unread THEN [shown EXCEPT !.pending_ = @ + 1] ELSE shown
    IN  IF ~mv.local
        THEN [counted EXCEPT !.keepOpen_ = TRUE,
                             !.keepOpenTimers = @ \cup {KeepOpenTicks}]
        ELSE counted

\* ChatDlg::dispatchMessage
dispatchMessage(s, mv) ==
    IF s.delayedMessages.alloc
    THEN [s EXCEPT !.delayedMessages.list = Append(@, mv)]
    ELSE displayMessage(s, mv)

\* one loop of holdMessages(false): for (mv : *delayedMessages) if (mv.isSpooled() == spooled) ...
RECURSIVE displayHeld(_, _, _)
displayHeld(s, list, spooled) ==
    IF list = << >> THEN s
    ELSE displayHeld(IF Head(list).spooled = spooled
                     THEN displayMessage(s, Head(list)) ELSE s,
                     Tail(list), spooled)

\* holdMessages with one loop over the buffer: the held views in enqueue order
holdMessages_enqueueOrder(s, hold) ==
    IF hold
    THEN IF ~s.delayedMessages.alloc
         THEN [s EXCEPT !.delayedMessages = [alloc |-> TRUE, list |-> << >>]]
         ELSE s
    ELSE IF s.delayedMessages.alloc
         THEN LET list == s.delayedMessages.list
                  s1   == displayHeld(s, SelectSeq(list, LAMBDA mv : ~mv.spooled), FALSE)
                  s2   == displayHeld(s1, SelectSeq(list, LAMBDA mv : mv.spooled), TRUE)
              IN  [s2 EXCEPT !.delayedMessages = [alloc |-> FALSE, list |-> << >>]]
         ELSE s

\* holdMessages without "delete delayedMessages; delayedMessages = nullptr"
holdMessages_keepsBuffer(s, hold) ==
    IF hold
    THEN IF ~s.delayedMessages.alloc
         THEN [s EXCEPT !.delayedMessages = [alloc |-> TRUE, list |-> << >>]]
         ELSE s
    ELSE IF s.delayedMessages.alloc
         THEN displayHeld(displayHeld(s, s.delayedMessages.list, TRUE),
                          s.delayedMessages.list, FALSE)
         ELSE s

\* holdMessages without the second loop: only the spooled views are displayed
holdMessages_spooledOnly(s, hold) ==
    IF hold
    THEN IF ~s.delayedMessages.alloc
         THEN [s EXCEPT !.delayedMessages = [alloc |-> TRUE, list |-> << >>]]
         ELSE s
    ELSE IF s.delayedMessages.alloc
         THEN [displayHeld(s, s.delayedMessages.list, TRUE)
                  EXCEPT !.delayedMessages = [alloc |-> FALSE, list |-> << >>]]
         ELSE s

\* ChatDlg::holdMessages
holdMessages(s, hold) ==
    IF hold
    THEN IF ~s.delayedMessages.alloc
         THEN [s EXCEPT !.delayedMessages = [alloc |-> TRUE, list |-> << >>]]
         ELSE s
    ELSE IF s.delayedMessages.alloc
         THEN LET list == s.delayedMessages.list
                  s1   == displayHeld(s, list, TRUE)
                  s2   == displayHeld(s1, list, FALSE)
              IN  [s2 EXCEPT !.delayedMessages = [alloc |-> FALSE, list |-> << >>]]
         ELSE s

\* appendSysMsg (implemented by the subclass): a System view through dispatchMessage
appendSysMsg(s, of) == dispatchMessage(s, fromHtml(System, of))

\* ChatDlg::setContactChatState
setContactChatState(s, state) ==
    LET s1 == [s EXCEPT !.contactChatState_ = state]
    IN  IF state = StateGone THEN appendSysMsg(s1, <<"gone", 0>>) ELSE s1

-----------------------------------------------------------------------------
(* ChatDlg::appendMessage *)

\* urlsSuppressed without "&& urlsMap.value(body).isEmpty()"
urlsSuppressed_anyDesc(m) ==
    LET urlsMap == urlsMapOf(m.urlList)
    IN  Cardinality(urlsMap) = 1 /\ mapContains(urlsMap, m.body)

\* the URLs view is left out when the links add nothing to the body
urlsSuppressed(m) ==
    LET urlsMap == urlsMapOf(m.urlList)
    IN  Cardinality(urlsMap) = 1 /\ mapContains(urlsMap, m.body)
        /\ (CHOOSE p \in urlsMap : p[1] = m.body)[2] = ""

\* appendEncryption without "if (!local)"
appendEncryption_warnsLocal(s, m, local) ==
    LET encChanged == ~s.historyState /\ s.lastWasEncrypted_ # m.wasEncrypted
        s1 == IF ~s.historyState
              THEN [s EXCEPT !.lastWasEncrypted_ = m.wasEncrypted] ELSE s
        encEnabled == IF ~s.historyState THEN s1.lastWasEncrypted_ ELSE FALSE
        s2 == IF encChanged THEN dispatchMessage(s1, fromHtml(System, m.id)) ELSE s1
    IN  IF encChanged /\ ~encEnabled
        THEN [s2 EXCEPT !.warnSend_ = TRUE, !.warnSendTimers = @ \cup {WarnSendTicks}]
        ELSE s2

\* appendEncryption without "lastWasEncrypted_ = m.wasEncrypted()"
appendEncryption_staleFlag(s, m, local) ==
    LET encChanged == ~s.historyState /\ s.lastWasEncrypted_ # m.wasEncrypted
        s2 == IF encChanged THEN dispatchMessage(s, fromHtml(System, m.id)) ELSE s
    IN  IF encChanged /\ ~local /\ ~(~s.historyState /\ s.lastWasEncrypted_)
        THEN [s2 EXCEPT !.warnSend_ = TRUE, !.warnSendTimers = @ \cup {WarnSendTicks}]
        ELSE s2

appendEncryption(s, m, local) ==
    LET encChanged == ~s.historyState /\ s.lastWasEncrypted_ # m.wasEncrypted
        s1 == IF ~s.historyState
              THEN [s EXCEPT !.lastWasEncrypted_ = m.wasEncrypted] ELSE s
        encEnabled == IF ~s.historyState THEN s1.lastWasEncrypted_ ELSE FALSE
        s2 == IF encChanged THEN dispatchMessage(s1, fromHtml(System, m.id)) ELSE s1
    IN  IF encChanged /\ ~local /\ ~encEnabled
        THEN [s2 EXCEPT !.warnSend_ = TRUE, !.warnSendTimers = @ \cup {WarnSendTicks}]
        ELSE s2

appendSubject(s, m) ==
    IF m.subject # ""
    THEN dispatchMessage(s, View(Subject, m.id, s.historyState, FALSE, NoCarbon, {}))
    ELSE s

appendBody(s, m, local) ==
    dispatchMessage(s, View(Message_, m.id, s.historyState, local, m.carbonDirection, {}))

appendUrls(s, m) ==
    IF m.urlList # << >> /\ ~urlsSuppressed(m)
    THEN dispatchMessage(s, View(Urls, m.id, s.historyState, FALSE, NoCarbon,
                                 urlsMapOf(m.urlList)))
    ELSE s

\* appendMessage with the subject view after the message view
appendMessage_subjectLast(s, m, local) ==
    appendUrls(appendSubject(appendBody(appendEncryption(s, m, local), m, local), m), m)

appendMessage(s, m, local) ==
    appendUrls(appendBody(appendSubject(appendEncryption(s, m, local), m), m, local), m)

-----------------------------------------------------------------------------
(* The outbound chat-state machine *)

\* what setChatState hands to account()->dj_sendMessage
StateMsg(chatState, events) ==
    [ via |-> "dj_sendMessage", id |-> <<"state", 0>>, chatState |-> chatState,
      events |-> events ]

\* account()->dj_sendMessage behind if (account()->isAvailable())
djSend(s, msg) == IF accountAvailable THEN [s EXCEPT !.sent = Append(@, msg)] ELSE s

\* "Build event message" ... "Send event message"
sendChatState(s, state) ==
    LET last   == s.lastChatState_
        events == IF s.sendComposingEvents_
                  THEN IF state = StateComposing THEN {ComposingEvent}
                       ELSE IF last = StateComposing THEN {CancelEvent} ELSE {}
                  ELSE {}
        hop    == s.contactChatState_ # StateNone
                  /\ \/ state = StateInactive /\ last = StateComposing
                     \/ state = StateComposing /\ last = StateInactive
        s1     == IF hop THEN djSend(s, StateMsg(StatePaused, events)) ELSE s
        cs     == IF s.contactChatState_ # StateNone THEN state ELSE StateNone
    IN  IF events # {} \/ cs # StateNone THEN djSend(s1, StateMsg(cs, events)) ELSE s1

\* the gate without the option send-composing-events
chatStateGate_ignoresOption(s) ==
    s.sendComposingEvents_ \/ s.contactChatState_ # StateNone

\* the gate of setChatState
chatStateGate(s) ==
    options.sendComposingEvents
    /\ (s.sendComposingEvents_ \/ s.contactChatState_ # StateNone)

\* the transformation applied to Gone only
privacyState_onlyGone(state) ==
    IF ~options.sendInactivityEvents /\ state = StateGone
    THEN StatePaused ELSE state

\* "Transform to more privacy-enabled chat states if necessary"
privacyState(state) ==
    IF ~options.sendInactivityEvents /\ state \in {StateGone, StateInactive}
    THEN StatePaused ELSE state

\* setChatState without "Don't send to offline resource"
setChatState_noReachability(s, requested) ==
    IF ~chatStateGate(s) THEN s
    ELSE LET state == privacyState(requested)
             last  == s.lastChatState_
         IN  IF last = StateNone
                /\ state \notin {StateActive, StateComposing, StateGone}
             THEN s
             ELSE IF last = StateGone /\ state = StateInactive
             THEN s
             ELSE IF state = last \/ (last = StateActive /\ state = StatePaused)
             THEN [s EXCEPT !.lastChatState_ = state]
             ELSE LET s1 == IF ~options.dontSendComposingEvents
                            THEN sendChatState(s, state) ELSE s
                  IN  IF last # StateGone \/ state = StateActive
                      THEN [s1 EXCEPT !.lastChatState_ = state]
                      ELSE s1

\* setChatState without the two tests of invalid transitions
setChatState_noInvalidTest(s, requested) ==
    IF ~chatStateGate(s) THEN s
    ELSE IF roster # "available"
    THEN [s EXCEPT !.sendComposingEvents_ = FALSE, !.lastChatState_ = StateNone]
    ELSE LET state == privacyState(requested)
             last  == s.lastChatState_
         IN  IF state = last \/ (last = StateActive /\ state = StatePaused)
             THEN [s EXCEPT !.lastChatState_ = state]
             ELSE LET s1 == IF ~options.dontSendComposingEvents
                            THEN sendChatState(s, state) ELSE s
                  IN  IF last # StateGone \/ state = StateActive
                      THEN [s1 EXCEPT !.lastChatState_ = state]
                      ELSE s1

\* setChatState without the Active -> Paused case of "Check if we should
\* send a message"
setChatState_noCollapse(s, requested) ==
    IF ~chatStateGate(s) THEN s
    ELSE IF roster # "available"
    THEN [s EXCEPT !.sendComposingEvents_ = FALSE, !.lastChatState_ = StateNone]
    ELSE LET state == privacyState(requested)
             last  == s.lastChatState_
         IN  IF last = StateNone
                /\ state \notin {StateActive, StateComposing, StateGone}
             THEN s
             ELSE IF last = StateGone /\ state = StateInactive
             THEN s
             ELSE IF state = last
             THEN [s EXCEPT !.lastChatState_ = state]
             ELSE LET s1 == IF ~options.dontSendComposingEvents
                            THEN sendChatState(s, state) ELSE s
                  IN  IF last # StateGone \/ state = StateActive
                      THEN [s1 EXCEPT !.lastChatState_ = state]
                      ELSE s1

\* setChatState saving the state also over Gone
setChatState_savesOverGone(s, requested) ==
    IF ~chatStateGate(s) THEN s
    ELSE IF roster # "available"
    THEN [s EXCEPT !.sendComposingEvents_ = FALSE, !.lastChatState_ = StateNone]
    ELSE LET state == privacyState(requested)
             last  == s.lastChatState_
         IN  IF last = StateNone
                /\ state \notin {StateActive, StateComposing, StateGone}
             THEN s
             ELSE IF last = StateGone /\ state = StateInactive
             THEN s
             ELSE IF state = last \/ (last = StateActive /\ state = StatePaused)
             THEN [s EXCEPT !.lastChatState_ = state]
             ELSE LET s1 == IF ~options.dontSendComposingEvents
                            THEN sendChatState(s, state) ELSE s
                  IN  [s1 EXCEPT !.lastChatState_ = state]

\* setChatState without the test of dont-send-composing-events
setChatState_ignoresDontSend(s, requested) ==
    IF ~chatStateGate(s) THEN s
    ELSE IF roster # "available"
    THEN [s EXCEPT !.sendComposingEvents_ = FALSE, !.lastChatState_ = StateNone]
    ELSE LET state == privacyState(requested)
             last  == s.lastChatState_
         IN  IF last = StateNone
                /\ state \notin {StateActive, StateComposing, StateGone}
             THEN s
             ELSE IF last = StateGone /\ state = StateInactive
             THEN s
             ELSE IF state = last \/ (last = StateActive /\ state = StatePaused)
             THEN [s EXCEPT !.lastChatState_ = state]
             ELSE LET s1 == sendChatState(s, state)
                  IN  IF last # StateGone \/ state = StateActive
                      THEN [s1 EXCEPT !.lastChatState_ = state]
                      ELSE s1

\* setChatState saving the requested state, not the transformed one
setChatState_tracksRequested(s, requested) ==
    IF ~chatStateGate(s) THEN s
    ELSE IF roster # "available"
    THEN [s EXCEPT !.sendComposingEvents_ = FALSE, !.lastChatState_ = StateNone]
    ELSE LET state == privacyState(requested)
             last  == s.lastChatState_
         IN  IF last = StateNone
                /\ state \notin {StateActive, StateComposing, StateGone}
             THEN s
             ELSE IF last = StateGone /\ state = StateInactive
             THEN s
             ELSE IF state = last \/ (last = StateActive /\ state = StatePaused)
             THEN [s EXCEPT !.lastChatState_ = state]
             ELSE LET s1 == IF ~options.dontSendComposingEvents
                            THEN sendChatState(s, state) ELSE s
                  IN  IF last # StateGone \/ state = StateActive
                      THEN [s1 EXCEPT !.lastChatState_ = requested]
                      ELSE s1

\* ChatDlg::setChatState
setChatState(s, requested) ==
    IF ~chatStateGate(s) THEN s
    ELSE IF roster # "available"
    THEN [s EXCEPT !.sendComposingEvents_ = FALSE, !.lastChatState_ = StateNone]
    ELSE LET state == privacyState(requested)
             last  == s.lastChatState_
         IN  IF last = StateNone
                /\ state \notin {StateActive, StateComposing, StateGone}
             THEN s
             ELSE IF last = StateGone /\ state = StateInactive
             THEN s
             ELSE IF state = last \/ (last = StateActive /\ state = StatePaused)
             THEN [s EXCEPT !.lastChatState_ = state]
             ELSE LET s1 == IF ~options.dontSendComposingEvents
                            THEN sendChatState(s, state) ELSE s
                  IN  IF last # StateGone \/ state = StateActive
                      THEN [s1 EXCEPT !.lastChatState_ = state]
                      ELSE s1

\* ChatDlg::updateIsComposing, the slot of the composing(bool) signal
updateIsComposing(s, b) == setChatState(s, IF b THEN StateComposing ELSE StatePaused)

\* ChatDlg::setComposing
setComposing(s) ==
    LET s1 == IF s.composingTimer_ = -1
              THEN updateIsComposing([s EXCEPT !.composingTimer_ = ComposingTicks], TRUE)
              ELSE s
    IN  [s1 EXCEPT !.isComposing_ = TRUE]

\* checkComposing without "isComposing_ = false; // Reset composing"
checkComposing_keepsFlag(s) ==
    LET s0 == [s EXCEPT !.composingTimer_ = ComposingTicks]
    IN  IF ~s0.isComposing_
        THEN updateIsComposing([s0 EXCEPT !.composingTimer_ = -1], FALSE)
        ELSE s0

\* checkComposing without the test of isComposing_
checkComposing_ignoresTyping(s) ==
    [updateIsComposing([s EXCEPT !.composingTimer_ = -1], FALSE)
        EXCEPT !.isComposing_ = FALSE]

\* ChatDlg::checkComposing, the slot of composingTimer_'s timeout (the timer
\* is periodic: it runs on unless it is deleted here)
checkComposing(s) ==
    LET s0 == [s EXCEPT !.composingTimer_ = ComposingTicks]
        s1 == IF ~s0.isComposing_
              THEN updateIsComposing([s0 EXCEPT !.composingTimer_ = -1], FALSE)
              ELSE s0
    IN  [s1 EXCEPT !.isComposing_ = FALSE]

\* resetComposing without "isComposing_ = false"
resetComposing_keepsFlag(s) ==
    IF s.composingTimer_ # -1 THEN [s EXCEPT !.composingTimer_ = -1] ELSE s

\* ChatDlg::resetComposing
resetComposing(s) ==
    IF s.composingTimer_ # -1
    THEN [s EXCEPT !.composingTimer_ = -1, !.isComposing_ = FALSE]
    ELSE s

-----------------------------------------------------------------------------
(* Sending *)

\* what doSend hands to the transport: emit aSend(m_) or sendPgpEncryptedMessage(m)
ChatMsg(via, m) ==
    [ via |-> via, id |-> m.id, chatState |-> m.chatState, events |-> m.events ]

\* doneSend without "historyState = false"
doneSend_keepsHistoryState(s) == resetComposing(appendMessage(s, s.m_, TRUE))

\* ChatDlg::doneSend
doneSend(s) ==
    resetComposing(appendMessage([s EXCEPT !.historyState = FALSE], s.m_, TRUE))

\* doSend with "Update current state" after the message is handed over
doSendBuilt_sendsFirst(s, id, text, tid) ==
    LET m0 == Msg(id, text, "", << >>, pgpEnabled, NoCarbon, {}, StateNone)
        m  == IF options.sendComposingEvents
              THEN [m0 EXCEPT !.events = IF s.sendComposingEvents_
                                         THEN {ComposingEvent} ELSE {},
                              !.chatState = StateActive]
              ELSE m0
        s1 == [s EXCEPT !.m_ = m0]
    IN  IF pgpEnabled
        THEN IF tid = -1
             THEN setChatState([s1 EXCEPT !.transid_ = -1, !.chatEditEnabled = TRUE],
                               StateActive)
             ELSE setChatState(
                     [s1 EXCEPT !.transid_ = tid, !.chatEditEnabled = FALSE,
                                !.sent = Append(@, ChatMsg("sendPgpEncryptedMessage", m)),
                                !.pgpInFlight = @ \cup {tid}],
                     StateActive)
        ELSE setChatState(doneSend([s1 EXCEPT !.sent = Append(@, ChatMsg("aSend", m0))]),
                          StateActive)

\* doSend from "Message m(jid())" on: m_ is copied before the events and the
\* chat state are added to m, so aSend(m_) carries neither
doSendBuilt(s, id, text, tid) ==
    LET m0 == Msg(id, text, "", << >>, pgpEnabled, NoCarbon, {}, StateNone)
        m  == IF options.sendComposingEvents
              THEN [m0 EXCEPT !.events = IF s.sendComposingEvents_
                                         THEN {ComposingEvent} ELSE {},
                              !.chatState = StateActive]
              ELSE m0
        s1 == setChatState([s EXCEPT !.m_ = m0], StateActive)
    IN  IF pgpEnabled
        THEN IF tid = -1
             THEN [s1 EXCEPT !.transid_ = -1, !.chatEditEnabled = TRUE]
             ELSE [s1 EXCEPT !.transid_ = tid, !.chatEditEnabled = FALSE,
                             !.sent = Append(@, ChatMsg("sendPgpEncryptedMessage", m)),
                             !.pgpInFlight = @ \cup {tid}]
        ELSE doneSend([s1 EXCEPT !.sent = Append(@, ChatMsg("aSend", m0))])

\* doSend without the "if (!chatEdit()->isEnabled()) return" of its first lines
doSend_whileDisabled(s, id, text, loggedIn, yes, tid) ==
    IF text = "" THEN s
    ELSE IF text = "/clear"
    THEN appendSysMsg(appendSysMsg(s, <<"clear", 1>>), <<"clear", 2>>)
    ELSE IF ~loggedIn THEN s
    ELSE IF s.warnSend_
    THEN IF yes
         THEN doSendBuilt([s EXCEPT !.warnSend_ = FALSE], id, text, tid)
         ELSE [s EXCEPT !.warnSend_ = FALSE]
    ELSE doSendBuilt(s, id, text, tid)

\* ChatDlg::doSend.  text is chatEdit()->toPlainText(), loggedIn is
\* account()->loggedIn(), yes the answer to the warnSend_ question, tid what
\* sendPgpEncryptedMessage returns
doSend(s, id, text, loggedIn, yes, tid) ==
    IF ~s.chatEditEnabled THEN s
    ELSE IF text = "" THEN s
    ELSE IF text = "/clear"
    THEN appendSysMsg(appendSysMsg(s, <<"clear", 1>>), <<"clear", 2>>)
    ELSE IF ~loggedIn THEN s
    ELSE IF s.warnSend_
    THEN IF yes
         THEN doSendBuilt([s EXCEPT !.warnSend_ = FALSE], id, text, tid)
         ELSE [s EXCEPT !.warnSend_ = FALSE]
    ELSE doSendBuilt(s, id, text, tid)

\* encryptedMessageSent without "|| transid_ != x"
encryptedMessageSent_noIdCheck(s, x, b) ==
    IF s.transid_ = -1 THEN s
    ELSE LET s1 == [s EXCEPT !.transid_ = -1]
             s2 == IF b THEN doneSend(s1) ELSE s1
         IN  [s2 EXCEPT !.chatEditEnabled = TRUE]

\* encryptedMessageSent with doneSend() whatever the transport reports
encryptedMessageSent_doneOnFailure(s, x, b) ==
    IF s.transid_ = -1 \/ s.transid_ # x THEN s
    ELSE [doneSend([s EXCEPT !.transid_ = -1]) EXCEPT !.chatEditEnabled = TRUE]

\* ChatDlg::encryptedMessageSent
encryptedMessageSent(s, x, b) ==
    IF s.transid_ = -1 \/ s.transid_ # x THEN s
    ELSE LET s1 == [s EXCEPT !.transid_ = -1]
             s2 == IF b THEN doneSend(s1) ELSE s1
         IN  [s2 EXCEPT !.chatEditEnabled = TRUE]

-----------------------------------------------------------------------------
(* Receiving *)

\* incomingMessage looking at the legacy events after the chat state
incomingMessage_eventsLast(s, m) ==
    LET s0 == [s EXCEPT !.historyState = FALSE]
    IN  IF m.body = "" /\ m.subject = "" /\ m.urlList = << >>
        THEN LET s1 == IF m.chatState # StateNone
                       THEN setContactChatState(s0, m.chatState) ELSE s0
             IN  IF CancelEvent \in m.events
                 THEN setContactChatState(s1, StatePaused)
                 ELSE IF ComposingEvent \in m.events
                 THEN setContactChatState(s1, StateComposing)
                 ELSE s1
        ELSE LET s1 == [s0 EXCEPT !.sendComposingEvents_ = ComposingEvent \in m.events]
                 s2 == IF m.events # {} \/ m.chatState # StateNone
                       THEN setContactChatState(s1, StateActive)
                       ELSE setContactChatState(s1, StateNone)
             IN  appendMessage(s2, m, m.carbonDirection = Sent)

\* incomingMessage taking the peer's chat state from a normal message as it
\* takes it from an event message
incomingMessage_copiesState(s, m) ==
    LET s0 == [s EXCEPT !.historyState = FALSE]
    IN  IF m.body = "" /\ m.subject = "" /\ m.urlList = << >>
        THEN LET s1 == IF CancelEvent \in m.events
                       THEN setContactChatState(s0, StatePaused)
                       ELSE IF ComposingEvent \in m.events
                       THEN setContactChatState(s0, StateComposing)
                       ELSE s0
             IN  IF m.chatState # StateNone
                 THEN setContactChatState(s1, m.chatState) ELSE s1
        ELSE LET s1 == [s0 EXCEPT !.sendComposingEvents_ = ComposingEvent \in m.events]
                 s2 == IF m.chatState # StateNone
                       THEN setContactChatState(s1, m.chatState)
                       ELSE setContactChatState(s1, IF m.events # {} THEN StateActive
                                                    ELSE StateNone)
             IN  appendMessage(s2, m, m.carbonDirection = Sent)

\* ChatDlg::incomingMessage
incomingMessage(s, m) ==
    LET s0 == [s EXCEPT !.historyState = FALSE]
    IN  IF m.body = "" /\ m.subject = "" /\ m.urlList = << >>
        THEN \* Event message
             LET s1 == IF CancelEvent \in m.events
                       THEN setContactChatState(s0, StatePaused)
                       ELSE IF ComposingEvent \in m.events
                       THEN setContactChatState(s0, StateComposing)
                       ELSE s0
             IN  IF m.chatState # StateNone
                 THEN setContactChatState(s1, m.chatState) ELSE s1
        ELSE \* Normal message
             LET s1 == [s0 EXCEPT !.sendComposingEvents_ = ComposingEvent \in m.events]
                 s2 == IF m.events # {} \/ m.chatState # StateNone
                       THEN setContactChatState(s1, StateActive)
                       ELSE setContactChatState(s1, StateNone)
             IN  appendMessage(s2, m, m.carbonDirection = Sent)

-----------------------------------------------------------------------------
(* History preload *)

\* ChatDlg::preloadHistory: cnt is the option preload-history-size; the
\* request itself is the environment's edb
preloadHistory(s, cnt) == IF cnt > 0 THEN holdMessages(s, TRUE) ELSE s

\* how many events the request asks for
preloadCount(cnt) == IF cnt > HistoryLimit THEN HistoryLimit ELSE cnt

\* the loop of getHistory: for (i = r.count() - 1; i >= 0; --i); r[i + 1] is r.at(i)
RECURSIVE replayHistory(_, _, _)
replayHistory(s, r, i) ==
    IF i = 0 THEN s
    ELSE replayHistory(IF r[i].type = "Message"
                       THEN appendMessage(s, r[i].message, r[i].originLocal)
                       ELSE s,
                       r, i - 1)

\* getHistory without "historyState = true"
getHistory_live(s, r) == holdMessages(replayHistory(s, r, Len(r)), FALSE)

\* ChatDlg::getHistory: r is the result of the request
getHistory(s, r) ==
    holdMessages(replayHistory([s EXCEPT !.historyState = TRUE], r, Len(r)), FALSE)

-----------------------------------------------------------------------------
(* Window events *)

\* ChatDlg::activated
activated(s) ==
    setChatState(IF s.pending_ > 0 THEN [s EXCEPT !.pending_ = 0] ELSE s, StateActive)

\* deactivated deleting the composing timer first, as hideEvent does
deactivated_resetsComposing(s) == setChatState(resetComposing(s), StateInactive)

\* ChatDlg::deactivated
deactivated(s) == setChatState(s, StateInactive)

\* ChatDlg::hideEvent
hideEvent(s, minimized) ==
    IF minimized THEN setChatState(resetComposing(s), StateInactive) ELSE s

\* whether readyToHide returns true: yes is the answer to "A new chat message
\* was just received. Do you still want to close the window?"
readyToHideResult(s, yes) == s.chatEditEnabled /\ (s.keepOpen_ => yes)

\* readyToHide leaving the peer's chat state as it is
readyToHide_keepsRemote(s, yes) ==
    IF ~readyToHideResult(s, yes) THEN s
    ELSE LET s1 == setChatState(resetComposing([s EXCEPT !.keepOpen_ = FALSE]), StateGone)
         IN  IF s1.pending_ > 0 THEN [s1 EXCEPT !.pending_ = 0] ELSE s1

\* ChatDlg::readyToHide
readyToHide(s, yes) ==
    IF ~readyToHideResult(s, yes) THEN s
    ELSE LET s1 == setChatState(resetComposing([s EXCEPT !.keepOpen_ = FALSE]), StateGone)
             s2 == IF s1.contactChatState_ \in {StateComposing, StateInactive}
                   THEN setContactChatState(s1, StatePaused) ELSE s1
         IN  IF s2.pending_ > 0 THEN [s2 EXCEPT !.pending_ = 0] ELSE s2

\* updateContact resetting the peer's chat state before it looks at Offline
updateContact_offlineLast(s, known, statusType, otherChanged, fromPresence) ==
    IF ~known THEN s
    ELSE LET statusChanged == s.status_ # statusType \/ otherChanged
             s1 == IF statusChanged THEN [s EXCEPT !.status_ = statusType] ELSE s
             s2 == IF options.showStatusChanges /\ fromPresence /\ statusChanged
                   THEN dispatchMessage(s1, View(Status, <<"status", 0>>, FALSE, FALSE,
                                                 NoCarbon, {}))
                   ELSE s1
             s3 == IF statusChanged /\ s2.contactChatState_ \in {StateComposing, StateInactive}
                   THEN setContactChatState(s2, StatePaused)
                   ELSE s2
         IN  IF statusType = "Offline" /\ ~statusChanged
             THEN [s3 EXCEPT !.contactChatState_ = StateNone] ELSE s3

\* ChatDlg::updateContact for the dialog's own jid: known is
\* !findRelevant(j).isEmpty(), statusType the status userStatusFor resolves,
\* otherChanged whether the status text (or priority) differs from the one shown
updateContact(s, known, statusType, otherChanged, fromPresence) ==
    IF ~known THEN s
    ELSE LET s1 == IF statusType = "Offline"
                   THEN [s EXCEPT !.contactChatState_ = StateNone] ELSE s
             statusChanged == s.status_ # statusType \/ otherChanged
             s2 == IF statusChanged THEN [s1 EXCEPT !.status_ = statusType] ELSE s1
             s3 == IF options.showStatusChanges /\ fromPresence /\ statusChanged
                   THEN dispatchMessage(s2, View(Status, <<"status", 0>>, FALSE, FALSE,
                                                 NoCarbon, {}))
                   ELSE s2
         IN  IF statusChanged /\ s3.contactChatState_ \in {StateComposing, StateInactive}
             THEN setContactChatState(s3, StatePaused)
             ELSE s3

-----------------------------------------------------------------------------
(* Bounds of the model *)

MaxSent    == 4   \* transmissions recorded
MaxViews   == 12  \* views created

-----------------------------------------------------------------------------
(* Construction: ChatDlg::create = the constructor, then init() *)

Options(sc, si, ds, ssc, pre) ==
    [ sendComposingEvents |-> sc, sendInactivityEvents |-> si,
      dontSendComposingEvents |-> ds, showStatusChanges |-> ssc,
      preloadHistorySize |-> pre ]

\* ChatDlg::ChatDlg: gc = the peer is a groupchat contact without private
\* history, startActive = send-composing-events-at-start and the peer's
\* capabilities have chat states
constructed(opts, gc, startActive) ==
    LET s == [ pending_ |-> 0, keepOpen_ |-> FALSE, warnSend_ |-> FALSE, transid_ |-> -1,
               lastWasEncrypted_ |-> FALSE, historyState |-> gc,
               contactChatState_ |-> IF startActive THEN StateActive ELSE StateNone,
               lastChatState_ |-> StateNone, sendComposingEvents_ |-> FALSE,
               isComposing_ |-> FALSE, composingTimer_ |-> -1,
               delayedMessages |-> [alloc |-> FALSE, list |-> << >>],
               status_ |-> "unset", m_ |-> NoMsg, chatView |-> << >>,
               chatEditEnabled |-> TRUE, sent |-> << >>, keepOpenTimers |-> {},
               warnSendTimers |-> {}, pgpInFlight |-> {} ]
    IN  IF gc THEN s ELSE preloadHistory(s, opts.preloadHistorySize)

\* ChatDlg::init: updateContact(jid(), true), then setLooks() with its
\* status_ = -2 and updateContact(jid(), false)
init(s, known, statusType) ==
    updateContact([updateContact(s, known, statusType, TRUE, TRUE)
                       EXCEPT !.status_ = "unset"],
                  known, statusType, TRUE, FALSE)

InitDialog(opts, gc, startActive, rost, statusType, acct, pgp, active) ==
    LET s == init(constructed(opts, gc, startActive), rost # "none", statusType)
    IN  /\ options = opts
        /\ roster = rost
        /\ accountAvailable = acct
        /\ pgpEnabled = pgp
        /\ isActiveTab = active
        /\ isMinimized = FALSE
        /\ edb = IF ~gc /\ opts.preloadHistorySize > 0 THEN "pending" ELSE "none"
        /\ nextId = [net |-> 1, own |-> 1, presence |-> 1]
        /\ received = << >>
        /\ typingIdle = -1
        /\ lastEvent = "create"
        /\ pending_ = s.pending_
        /\ keepOpen_ = s.keepOpen_
        /\ warnSend_ = s.warnSend_
        /\ transid_ = s.transid_
        /\ lastWasEncrypted_ = s.lastWasEncrypted_
        /\ historyState = s.historyState
        /\ contactChatState_ = s.contactChatState_
        /\ lastChatState_ = s.lastChatState_
        /\ sendComposingEvents_ = s.sendComposingEvents_
        /\ isComposing_ = s.isComposing_
        /\ composingTimer_ = s.composingTimer_
        /\ delayedMessages = s.delayedMessages
        /\ status_ = s.status_
        /\ m_ = s.m_
        /\ chatView = s.chatView
        /\ chatEditEnabled = s.chatEditEnabled
        /\ sent = s.sent
        /\ keepOpenTimers = s.keepOpenTimers
        /\ warnSendTimers = s.warnSendTimers
        /\ pgpInFlight = s.pgpInFlight

\* no call of a PsiIconset function yet
NoCall == [fn |-> "none"]

InitWith(opts, gc, startActive, rost, statusType, acct, pgp, active) ==
    /\ InitDialog(opts, gc, startActive, rost, statusType, acct, pgp, active)
    /\ /\ status_icons = [useServicesIcons |-> FALSE, list |-> << >>, customList |-> << >>]
       /\ iconsetRoster = << >>
       /\ client2icon = << >>
       /\ returned = NoCall

-----------------------------------------------------------------------------
(* Actions: one per handler *)

\* commit the handler's result r as event ev, within the model's bounds
Do(r, ev) ==
    /\ Len(r.sent) <= MaxSent
    /\ Len(r.chatView) + Len(r.delayedMessages.list) <= MaxViews
    /\ Commit(r)
    /\ lastEvent' = ev
    /\ UNCHANGED << status_icons, iconsetRoster, client2icon, returned >>

\* the messages received, messages composed and presences received so far
eventCount == (nextId.net - 1) + (nextId.own - 1) + (nextId.presence - 1)

\* the n-th message from the network: the copy of a message the user sent
\* from another client (carbon direction Sent) has origin "carbon"
arrived(m, n) ==
    [m EXCEPT !.id = <<IF m.carbonDirection = Sent THEN "carbon" ELSE "net", n>>]

\* a message arrives from the network; A is the set of messages it may be,
\* max the number of events the specification lets happen
IncomingMessage(A, max) ==
    /\ eventCount < max
    /\ \E a \in A :
          LET m == arrived(a, nextId.net)
          IN  /\ Do(incomingMessage(this, m), "incomingMessage")
              /\ received' = Append(received, m)
    /\ nextId' = [nextId EXCEPT !.net = @ + 1]
    /\ UNCHANGED << isActiveTab, isMinimized, roster, accountAvailable, pgpEnabled,
                    options, edb, typingIdle >>

\* the user sends what is in the input field (the window has the focus)
DoSend(Texts, max) ==
    /\ isActiveTab
    /\ eventCount < max
    /\ \E text \in Texts, loggedIn \in BOOLEAN, yes \in BOOLEAN, tid \in {-1, nextId.own} :
          /\ Do(doSend(this, <<"own", nextId.own>>, text, loggedIn, yes, tid),
                IF ~chatEditEnabled \/ text = "" \/ (text # "/clear" /\ ~loggedIn)
                THEN "doSend:return"
                ELSE IF text = "/clear" THEN "doSend:clear"
                ELSE IF warnSend_ /\ ~yes THEN "doSend:declined"
                ELSE IF pgpEnabled /\ tid = -1 THEN "doSend:failed"
                ELSE "doSend")
    /\ nextId' = [nextId EXCEPT !.own = @ + 1]
    /\ UNCHANGED << isActiveTab, isMinimized, roster, accountAvailable, pgpEnabled,
                    options, edb, received, typingIdle >>

\* the account reports an encrypted send: of this dialog (x in flight) or of
\* another one (the signal reaches every dialog of the account)
EncryptedMessageSent ==
    /\ \E x \in pgpInFlight \cup {0}, b \in BOOLEAN :
          /\ Do([encryptedMessageSent(this, x, b) EXCEPT !.pgpInFlight = @ \ {x}],
                IF transid_ = -1 \/ transid_ # x THEN "encryptedMessageSent:ignored"
                ELSE IF b THEN "encryptedMessageSent:ok" ELSE "encryptedMessageSent:failed")
    /\ UNCHANGED userVars

\* TabbableWidget: isActiveTab() changes when, and only when, the tab manager
\* calls activated() or deactivated()
tabFocus(active) == isActiveTab = ~active /\ isActiveTab' = active

\* the tab manager gives the dialog the focus
Activated ==
    /\ tabFocus(TRUE)
    /\ isMinimized' = FALSE
    /\ Do(activated(this), "activated")
    /\ UNCHANGED << roster, accountAvailable, pgpEnabled, options, edb, nextId, received,
                    typingIdle >>

\* the dialog loses the focus
Deactivated ==
    /\ tabFocus(FALSE)
    /\ Do(deactivated(this), "deactivated")
    /\ UNCHANGED << isMinimized, roster, accountAvailable, pgpEnabled, options, edb,
                    nextId, received, typingIdle >>

\* the window is hidden: minimized, or its tab is switched away
HideEvent ==
    /\ ~isActiveTab
    /\ \E minimized \in BOOLEAN :
          /\ isMinimized' = minimized
          /\ Do(hideEvent(this, minimized), "hideEvent")
    /\ UNCHANGED << isActiveTab, roster, accountAvailable, pgpEnabled, options, edb,
                    nextId, received, typingIdle >>

\* the user closes the window or the tab
ReadyToHide ==
    /\ \E yes \in BOOLEAN :
          Do(readyToHide(this, yes),
             IF readyToHideResult(this, yes) THEN "readyToHide:true"
             ELSE "readyToHide:false")
    /\ UNCHANGED userVars

\* the user types in the input field
SetComposing ==
    /\ isActiveTab
    /\ chatEditEnabled
    /\ Do(setComposing(this), "setComposing")
    /\ typingIdle' = 0
    /\ UNCHANGED envVars

\* composingTimer_ times out
CheckComposing ==
    /\ composingTimer_ = 0
    /\ Do(checkComposing(this), "checkComposing")
    /\ UNCHANGED userVars

\* QTimer::singleShot(1000, this, [this]() { keepOpen_ = false; })
KeepOpenTimeout ==
    /\ 0 \in keepOpenTimers
    /\ Do([this EXCEPT !.keepOpen_ = FALSE, !.keepOpenTimers = @ \ {0}], "keepOpenTimeout")
    /\ UNCHANGED userVars

\* QTimer::singleShot(3000, this, [this]() { warnSend_ = false; })
WarnSendTimeout ==
    /\ 0 \in warnSendTimers
    /\ Do([this EXCEPT !.warnSend_ = FALSE, !.warnSendTimers = @ \ {0}], "warnSendTimeout")
    /\ UNCHANGED userVars

\* typingIdle is not counted further than two periods of composingTimer_
IdleCap == 2 * ComposingTicks

\* one second passes: no timer is due, and some timer runs
Tick ==
    /\ composingTimer_ # 0 /\ 0 \notin keepOpenTimers /\ 0 \notin warnSendTimers
    /\ composingTimer_ > 0 \/ keepOpenTimers # {} \/ warnSendTimers # {}
    /\ Do([this EXCEPT !.composingTimer_ = IF @ > 0 THEN @ - 1 ELSE @,
                       !.keepOpenTimers = { t - 1 : t \in @ },
                       !.warnSendTimers = { t - 1 : t \in @ }], "tick")
    /\ typingIdle' = IF typingIdle \in 0..(IdleCap - 1) THEN typingIdle + 1 ELSE typingIdle
    /\ UNCHANGED envVars

\* the peer's presence changes: the roster is updated, then updateContact runs
Presence(max) ==
    /\ roster # "none"
    /\ eventCount < max
    /\ nextId' = [nextId EXCEPT !.presence = @ + 1]
    /\ \E r \in {"unavailable", "available"}, otherChanged \in BOOLEAN :
          \E st \in (IF r = "available" THEN {"Online"} ELSE {"Offline"}) :
             /\ roster' = r
             /\ Do(updateContact(this, TRUE, st, otherChanged, TRUE), "updateContact")
    /\ UNCHANGED << isActiveTab, isMinimized, accountAvailable, pgpEnabled, options, edb,
                    received, typingIdle >>

\* the history request finishes with result r: r[1] is the newest event
\* (EDB::Backward), ids rank the events by age
GetHistory(R) ==
    /\ edb = "pending"
    /\ edb' = "done"
    /\ \E r \in R : Do(getHistory(this, r), "getHistory")
    /\ UNCHANGED << isActiveTab, isMinimized, roster, accountAvailable, pgpEnabled,
                    options, nextId, received, typingIdle >>

-----------------------------------------------------------------------------
(* Inputs *)

\* the next chat message with a body
NetMsg(subject, urlList, enc, carbon, events, chatState) ==
    Msg(<<"net", nextId.net>>, "hello", subject, urlList, enc, carbon, events, chatState)

\* a state notification: no body, no subject, no links
EventMsg(events, chatState) ==
    Msg(<<"net", nextId.net>>, "", "", << >>, FALSE, NoCarbon, events, chatState)

\* the results a request may deliver: at most max events, r[1] the newest, the
\* event of age rank k described by one of the variants V
HistoryResults(V, max) ==
    UNION { { [ i \in 1..n |->
                  [ type |-> v[i][1], originLocal |-> v[i][4],
                    message |-> Msg(<<"edb", n - i + 1>>, "old", v[i][2], << >>, v[i][3],
                                   NoCarbon, {}, StateNone) ] ]
              : v \in [1..n -> V] }
            : n \in 0..max }

-----------------------------------------------------------------------------
(* SpecHold: messages arriving around a history preload.                   *)
(* The actions are the handlers that create views (a received message, a   *)
(* sent message, a presence with a status view, the end of the history     *)
(* request); the option send-composing-events is off, so setChatState      *)
(* does nothing, and the timers, which touch neither the queue nor the     *)
(* transcript, do not run.                                                 *)

HoldMaxEvents  == 3   \* messages received, messages sent and presences
HoldMaxBacklog == 2   \* stored events the history request returns

HoldResults ==
    HistoryResults({ <<"Other", "", FALSE, FALSE>>, <<"Message", "", FALSE, FALSE>>,
                     <<"Message", "re", TRUE, TRUE>> },
                   Min(preloadCount(options.preloadHistorySize), HoldMaxBacklog))

InitHold ==
    \E pre \in {0, 1, 150}, gc \in BOOLEAN :
       InitWith(Options(FALSE, FALSE, FALSE, TRUE, pre), gc, FALSE, "available",
                "Online", TRUE, FALSE, TRUE)

NextHold ==
    \/ IncomingMessage({ NetMsg("", << >>, FALSE, NoCarbon, {}, StateNone),
                       NetMsg("re", << >>, TRUE, NoCarbon, {}, StateNone) }, HoldMaxEvents)
    \/ DoSend({"", "hi"}, HoldMaxEvents)
    \/ GetHistory(HoldResults)
    \/ Presence(HoldMaxEvents)

SpecHold == InitHold /\ [][NextHold]_vars

-----------------------------------------------------------------------------
(* Claims on the hold/flush queue *)

origin(mv) == mv.of[1]
rank(mv)   == mv.of[2]

\* C1: whatever the interleaving of received messages with a running history
\* preload, every view of a stored event is displayed before every view of a
\* received message, the views of stored events oldest first, the views of
\* received messages in arrival order.
C1_BacklogBeforeLive ==
    \A i, j \in 1..Len(chatView) :
       i < j =>
          /\ ~(origin(chatView[i]) = "net" /\ origin(chatView[j]) = "edb")
          /\ origin(chatView[i]) = "edb" /\ origin(chatView[j]) = "edb"
                => rank(chatView[i]) <= rank(chatView[j])
          /\ origin(chatView[i]) = "net" /\ origin(chatView[j]) = "net"
                => rank(chatView[i]) <= rank(chatView[j])

\* two messages were received while the request was running, and two stored
\* events were replayed
C1_Witness ==
    /\ lastEvent = "getHistory"
    /\ \E i, j \in 1..Len(chatView) :
          /\ origin(chatView[i]) = "edb" /\ rank(chatView[i]) = 2
          /\ origin(chatView[j]) = "net" /\ rank(chatView[j]) = 2

\* C2: holdMessages(false) displays the held views with the spooled flag in
\* enqueue order, then the held views without it in enqueue order, and frees
\* the buffer; with no buffer it displays nothing.  (The buffer at the flush
\* of getHistory is what was held before, then the views of the replay of
\* some result r.)
C2_FlushOrder ==
    /\ [](~delayedMessages.alloc => holdMessages(this, FALSE) = this)
    /\ [][ lastEvent' = "getHistory" =>
             \E r \in HoldResults :
                LET held == replayHistory([this EXCEPT !.historyState = TRUE], r, Len(r))
                    list == held.delayedMessages.list
                IN  /\ held.chatView = chatView
                    /\ chatView' = chatView \o SelectSeq(list, LAMBDA mv : mv.spooled)
                                            \o SelectSeq(list, LAMBDA mv : ~mv.spooled)
                    /\ delayedMessages' = [alloc |-> FALSE, list |-> << >>] ]_vars

\* a flush of a buffer where a view without the flag was enqueued before
\* views with the flag
C2_Witness ==
    /\ lastEvent = "getHistory"
    /\ ~delayedMessages.alloc
    /\ Len(SelectSeq(chatView, LAMBDA mv : mv.spooled)) >= 2
    /\ Len(SelectSeq(chatView, LAMBDA mv : ~mv.spooled)) >= 2

\* C29: the replay of the history gives spooled views only (Subject,
\* Message, URLs), no System view, and leaves lastWasEncrypted_ and warnSend_
\* as they are, whatever the encryption flags of the stored messages.
C29_ReplayIsSpooled ==
    /\ [][ lastEvent' = "getHistory" =>
             /\ lastWasEncrypted_' = lastWasEncrypted_
             /\ warnSend_' = warnSend_
             /\ warnSendTimers' = warnSendTimers
             /\ Len(SelectSeq(chatView', LAMBDA mv : mv.type = System))
                  = Len(SelectSeq((chatView \o delayedMessages.list),
                                  LAMBDA mv : mv.type = System))
             /\ \A i \in 1..Len(chatView') :
                   origin(chatView'[i]) = "edb"
                      => chatView'[i].spooled /\ chatView'[i].type \in {Subject, Message_} ]_vars
    /\ [](edb = "pending" =>
             \A local \in BOOLEAN, enc \in BOOLEAN, subject \in {"", "re"},
                urlList \in { << >>, << <<"other", "">> >> } :
                LET m   == Msg(<<"edb", 1>>, "old", subject, urlList, enc, NoCarbon, {},
                               StateNone)
                    r   == getHistory(this, << [ type |-> "Message", originLocal |-> local,
                                                 message |-> m ] >>)
                    new == SelectSeq(r.chatView, LAMBDA mv : origin(mv) = "edb")
                IN  /\ r.lastWasEncrypted_ = lastWasEncrypted_
                    /\ r.warnSend_ = warnSend_
                    /\ [ i \in 1..Len(new) |-> new[i].type ]
                         = (IF subject # "" THEN <<Subject>> ELSE << >>)
                           \o <<Message_>>
                           \o (IF urlList # << >> THEN <<Urls>> ELSE << >>)
                    /\ \A i \in 1..Len(new) : new[i].spooled
                    /\ Len(r.chatView)
                         = Len((chatView \o delayedMessages.list)) + Len(new))

\* the warning was armed by live messages (encrypted, then plain) while the
\* request was running; the replay of a stored encrypted message with a
\* subject left the warning and the flag as they were
C29_Witness ==
    /\ lastEvent = "getHistory"
    /\ warnSend_
    /\ ~lastWasEncrypted_
    /\ \E i \in 1..Len(chatView) :
          /\ origin(chatView[i]) = "edb"
          /\ chatView[i].type = Subject
          /\ chatView[i].spooled

\* C36: the views of a received message and of a sent message never carry
\* the spooled flag, whatever historyState was before (true after a replay
\* and in a dialog constructed for a groupchat contact): both handlers clear
\* historyState before appendMessage.  Only the views of stored events,
\* created inside getHistory, are spooled.
C36_LiveNotSpooled ==
    /\ [](\A i \in 1..Len(chatView \o delayedMessages.list) :
             (chatView \o delayedMessages.list)[i].spooled
                => origin((chatView \o delayedMessages.list)[i]) = "edb")
    /\ [][ lastEvent' \in {"incomingMessage", "doSend"} =>
             /\ ~historyState'
             /\ \A i \in 1..Len(chatView' \o delayedMessages'.list) :
                   origin((chatView' \o delayedMessages'.list)[i]) \in {"net", "own"}
                      => ~(chatView' \o delayedMessages'.list)[i].spooled ]_vars
    /\ [][ lastEvent' = "getHistory" => historyState' ]_vars
    /\ [](\A enc \in BOOLEAN, subject \in {"", "re"}, carbon \in {NoCarbon, Sent} :
             LET m   == Msg(<<"net", nextId.net>>, "hello", subject, << >>, enc, carbon, {},
                            StateNone)
                 s   == [this EXCEPT !.historyState = TRUE]
                 in  == incomingMessage(s, m)
                 out == doneSend([s EXCEPT !.m_ = m])
             IN  /\ ~in.historyState /\ ~out.historyState
                 /\ \A i \in 1..Len(in.chatView \o in.delayedMessages.list) :
                       origin((in.chatView \o in.delayedMessages.list)[i]) = "net"
                          => ~(in.chatView \o in.delayedMessages.list)[i].spooled
                 /\ \A i \in 1..Len(out.chatView \o out.delayedMessages.list) :
                       origin((out.chatView \o out.delayedMessages.list)[i]) = "net"
                          => ~(out.chatView \o out.delayedMessages.list)[i].spooled
                 /\ Len(in.chatView \o in.delayedMessages.list)
                      > Len(chatView \o delayedMessages.list)
                 /\ Len(out.chatView \o out.delayedMessages.list)
                      > Len(chatView \o delayedMessages.list))

\* a message was sent after the replay of a stored message had left
\* historyState true: its view follows the spooled one and is not spooled
C36_Witness ==
    /\ lastEvent = "doSend"
    /\ edb = "done"
    /\ \E i, j \in 1..Len(chatView) :
          /\ i < j
          /\ origin(chatView[i]) = "edb" /\ chatView[i].spooled
          /\ origin(chatView[j]) = "own" /\ ~chatView[j].spooled /\ chatView[j].local

HoldFairMaxEvents == 2   \* messages received, messages sent and presences

NextHoldFair ==
    \/ IncomingMessage({ NetMsg("", << >>, FALSE, NoCarbon, {}, StateNone),
                       NetMsg("re", << >>, TRUE, NoCarbon, {}, StateNone) }, HoldFairMaxEvents)
    \/ DoSend({"", "hi"}, HoldFairMaxEvents)
    \/ GetHistory(HoldResults)
    \/ Presence(HoldFairMaxEvents)

\* the handlers of SpecHold where the request of the history finishes: the
\* EDB answers every request, and its finished() signal is delivered by the
\* event loop
SpecHoldFair == InitHold /\ [][NextHoldFair]_vars /\ WF_vars(GetHistory(HoldResults))

\* C33: while views are held none is displayed and each new view joins the
\* buffer; with no buffer each new view is displayed at once; the flush of
\* getHistory displays every held view exactly once and frees the buffer;
\* and, the request finishing, a dialog that holds views stops holding.
C33_NoViewLost ==
    /\ [][ delayedMessages.alloc /\ lastEvent' # "getHistory" =>
              /\ chatView' = chatView
              /\ delayedMessages'.alloc
              /\ SubSeq(delayedMessages'.list, 1, Len(delayedMessages.list))
                   = delayedMessages.list ]_vars
    /\ [][ ~delayedMessages.alloc =>
              /\ SubSeq(chatView', 1, Len(chatView)) = chatView
              /\ delayedMessages' = delayedMessages ]_vars
    /\ [][ lastEvent' = "getHistory" =>
              /\ delayedMessages' = [alloc |-> FALSE, list |-> << >>]
              /\ \A i \in 1..Len(chatView') :
                    LET v == chatView'[i]
                    IN  Len(SelectSeq(chatView', LAMBDA x : x = v))
                          = IF origin(v) = "edb" THEN 1
                            ELSE Len(SelectSeq(chatView \o delayedMessages.list,
                                               LAMBDA x : x = v))
              /\ \A i \in 1..Len(delayedMessages.list) :
                    \E j \in (Len(chatView) + 1)..Len(chatView') :
                       chatView'[j] = delayedMessages.list[i] ]_vars
    /\ (delayedMessages.alloc ~> ~delayedMessages.alloc)

\* a received message and a sent one were held while the request ran; after
\* the flush they follow the two replayed messages
C33_Witness ==
    /\ lastEvent = "getHistory"
    /\ ~delayedMessages.alloc
    /\ \E i \in 1..Len(chatView) : origin(chatView[i]) = "net" /\ i > 2
    /\ \E i \in 1..Len(chatView) : origin(chatView[i]) = "own" /\ i > 2
    /\ Len(SelectSeq(chatView, LAMBDA mv : origin(mv) = "edb" /\ mv.type = Message_)) = 2

-----------------------------------------------------------------------------
(* SpecPending: the unread counter.                                        *)
(* The actions are the handlers that display views or write pending_, and  *)
(* the focus changes; send-composing-events is off.  keepOpen_ stays set   *)
(* once set (no timer runs): readyToHide then succeeds or not as the user  *)
(* answers, which covers both of its outcomes.                             *)

PendMaxEvents  == 2   \* messages received, messages sent and presences
PendMaxBacklog == 1   \* stored events the history request returns

InitPending ==
    \E pre \in {0, 1}, active \in BOOLEAN, pgp \in BOOLEAN :
       InitWith(Options(FALSE, FALSE, FALSE, TRUE, pre), FALSE, FALSE, "available",
                "Online", TRUE, pgp, active)

NextPending ==
    \/ IncomingMessage({ NetMsg("", << >>, FALSE, NoCarbon, {}, StateNone),
                       NetMsg("re", << >>, FALSE, NoCarbon, {}, StateNone),
                       NetMsg("", << >>, FALSE, Sent, {}, StateNone),
                       NetMsg("re", << >>, TRUE, Sent, {}, StateNone),
                       NetMsg("", << >>, TRUE, Received, {}, StateNone) }, PendMaxEvents)
    \/ DoSend({"", "hi"}, PendMaxEvents)
    \/ EncryptedMessageSent
    \/ GetHistory(HistoryResults({ <<"Message", "", FALSE, FALSE>>, <<"Message", "re", FALSE, TRUE>> },
                  Min(preloadCount(options.preloadHistorySize), PendMaxBacklog)))
    \/ Presence(PendMaxEvents)
    \/ Activated
    \/ Deactivated
    \/ ReadyToHide

SpecPending == InitPending /\ [][NextPending]_vars

-----------------------------------------------------------------------------
(* Claims on pending_ *)

\* C3: whenever the dialog is the active tab pending_ is 0; pending_ is 0
\* right after activated() and after a readyToHide() that returned true; and
\* pending_ is never negative.
C3_PendingZeroWhenActive ==
    /\ isActiveTab => pending_ = 0
    /\ lastEvent \in {"activated", "readyToHide:true"} => pending_ = 0
    /\ pending_ >= 0

\* the dialog is active and has displayed a received message, after it had
\* unread messages
C3_Witness ==
    /\ isActiveTab
    /\ lastEvent = "incomingMessage"
    /\ \E i, j \in 1..Len(chatView) :
          /\ i < j
          /\ origin(chatView[i]) = "net" /\ chatView[i].type = Message_
          /\ origin(chatView[j]) = "net" /\ chatView[j].type = Message_
    /\ nextId.presence = 1 /\ nextId.own = 1 /\ edb = "none"

\* C4 (as claimed): pending_ grows by one exactly for every displayed view
\* that is not spooled, not System or Status, belongs to a received message
\* that is neither sent here nor the copy of one sent elsewhere, and is
\* displayed while the dialog is not the active tab; nothing else raises it.
C4_OnlyInboundCounts ==
    [][ IF lastEvent' \in {"activated", "readyToHide:true"}
        THEN pending_' = 0
        ELSE pending_' = pending_
                 + Cardinality({ k \in (Len(chatView) + 1)..Len(chatView') :
                                   /\ ~chatView'[k].spooled
                                   /\ chatView'[k].type \notin {System, Status}
                                   /\ origin(chatView'[k]) = "net"
                                   /\ ~isActiveTab }) ]_vars

\* C32 (as claimed): a message received from the peer and displayed while
\* the dialog is not the active tab raises pending_ by exactly one, with or
\* without a subject or links.
C32_OnePerMessage ==
    [][ /\ lastEvent' = "incomingMessage"
        /\ ~isActiveTab
        /\ received'[Len(received')].carbonDirection # Sent
        /\ \E k \in (Len(chatView) + 1)..Len(chatView') : chatView'[k].type = Message_
        => pending_' = pending_ + 1 ]_vars

-----------------------------------------------------------------------------
(* SpecPgp: one dialog that encrypts what it sends.  The user types, sends *)
(* and closes the window while the transport works on a message; the peer  *)
(* writes, with a chat state; the tab gains and loses the focus.           *)

PgpMaxEvents == 3   \* messages received and messages sent

InitPgp ==
    \E active \in BOOLEAN :
       InitWith(Options(TRUE, FALSE, FALSE, FALSE, 0), FALSE, FALSE, "available",
                "Online", TRUE, TRUE, active)

NextPgp ==
    \/ IncomingMessage({ NetMsg("", << >>, TRUE, NoCarbon, {}, StateActive) }, PgpMaxEvents)
    \/ DoSend({"hi"}, PgpMaxEvents)
    \/ EncryptedMessageSent
    \/ ReadyToHide
    \/ SetComposing
    \/ Activated
    \/ Deactivated

SpecPgp == InitPgp /\ [][NextPgp]_vars

\* C35: at most one encrypted send is outstanding.  While the input field
\* is disabled the dialog waits for exactly the transaction transid_, which
\* the transport has not completed; every doSend is a return at the first
\* test and every readyToHide answers false, and both leave pending_, the
\* two chat states, the composing timer, transid_, what was transmitted and
\* what was displayed as they were.  The field is disabled only by an
\* encrypted doSend and enabled again only by the completion of transid_.
C35_OneEncryptedSend ==
    /\ [](~chatEditEnabled => transid_ # -1 /\ transid_ \in pgpInFlight)
    /\ [][ /\ ~chatEditEnabled
           /\ lastEvent' \in {"doSend", "doSend:return", "doSend:clear", "doSend:declined",
                              "doSend:failed", "readyToHide:true", "readyToHide:false"}
           => /\ lastEvent' \in {"doSend:return", "readyToHide:false"}
              /\ UNCHANGED << pending_, lastChatState_, contactChatState_, composingTimer_,
                              isComposing_, transid_, chatEditEnabled, sent, chatView,
                              delayedMessages, pgpInFlight >> ]_vars
    /\ [][ chatEditEnabled /\ ~chatEditEnabled'
           => /\ lastEvent' = "doSend" /\ pgpEnabled
              /\ transid_' \notin pgpInFlight
              /\ Len(sent') > Len(sent)
              /\ \A k \in (Len(sent) + 1)..Len(sent') :
                    sent'[k].via = "sendPgpEncryptedMessage" <=> k = Len(sent') ]_vars
    /\ [][ ~chatEditEnabled /\ chatEditEnabled'
           => /\ lastEvent' \in {"encryptedMessageSent:ok", "encryptedMessageSent:failed"}
              /\ transid_' = -1
              /\ transid_ \notin pgpInFlight' ]_vars

\* a doSend arrived while an encrypted send was outstanding and the
\* composing timer running
C35_Witness ==
    /\ lastEvent = "doSend:return"
    /\ ~chatEditEnabled
    /\ transid_ \in pgpInFlight
    /\ composingTimer_ # -1
    /\ lastChatState_ = StateActive

-----------------------------------------------------------------------------
(* SpecEnc: encryption transitions.                                        *)
(* The actions are the handlers that reach appendMessage: received         *)
(* messages, sent messages (plain or PGP), the history replay.             *)

EncMaxEvents  == 3   \* messages received and messages sent
EncMaxBacklog == 1   \* stored events the history request returns

InitEnc ==
    \E pre \in {0, 1}, gc \in BOOLEAN, pgp \in BOOLEAN :
       InitWith(Options(FALSE, FALSE, FALSE, FALSE, pre), gc, FALSE, "available",
                "Online", TRUE, pgp, TRUE)

NextEnc ==
    \/ IncomingMessage({ NetMsg("", << >>, enc, NoCarbon, {}, StateNone) : enc \in BOOLEAN }, EncMaxEvents)
    \/ DoSend({"hi"}, EncMaxEvents)
    \/ EncryptedMessageSent
    \/ GetHistory(HistoryResults({ <<"Message", "", enc, FALSE>> : enc \in BOOLEAN },
                  Min(preloadCount(options.preloadHistorySize), EncMaxBacklog)))

SpecEnc == InitEnc /\ [][NextEnc]_vars

\* the views created so far, displayed or held
created(view, held) == view \o held.list

\* the System views that announce an encryption change
transitionViews(views) ==
    SelectSeq(views, LAMBDA mv : mv.type = System /\ origin(mv) \in {"net", "carbon", "own"})

\* C7 (as claimed): in a fresh session the received messages encrypted,
\* plain, encrypted give exactly 2 transition views, and the first received
\* message gives none.
C7_TwoTransitionViews ==
    nextId.own = 1 =>
       /\ [ i \in 1..Len(received) |-> received[i].wasEncrypted ] = <<TRUE, FALSE, TRUE>>
             => Len(transitionViews(created(chatView, delayedMessages))) = 2
       /\ Len(received) = 1
             => Len(transitionViews(created(chatView, delayedMessages))) = 0

\* C7 (amended): a received message, the first included, gives one transition
\* view iff its flag differs from lastWasEncrypted_, which is false in a fresh
\* session and then the flag of the last live message; so encrypted, plain,
\* encrypted gives exactly 3.
C7_TransitionPerChange ==
    /\ [](nextId.own = 1 /\ [ i \in 1..Len(received) |-> received[i].wasEncrypted ] = <<TRUE, FALSE, TRUE>>
             => Len(transitionViews(created(chatView, delayedMessages))) = 3)
    /\ [](nextId.own = 1 /\ [ i \in 1..Len(received) |-> received[i].wasEncrypted ] = <<FALSE, TRUE, FALSE>>
             => Len(transitionViews(created(chatView, delayedMessages))) = 2)
    /\ [][ lastEvent' = "incomingMessage" =>
             LET m == received'[Len(received')]
             IN  /\ Len(transitionViews(created(chatView', delayedMessages')))
                      = Len(transitionViews(created(chatView, delayedMessages)))
                        + (IF m.wasEncrypted # lastWasEncrypted_ THEN 1 ELSE 0)
                 /\ lastWasEncrypted_' = m.wasEncrypted ]_vars

\* encrypted, plain, encrypted were received and nothing was sent
C7_Witness ==
    /\ nextId.own = 1
    /\ [ i \in 1..Len(received) |-> received[i].wasEncrypted ] = <<TRUE, FALSE, TRUE>>
    /\ lastEvent = "incomingMessage"

-----------------------------------------------------------------------------
(* SpecUrls: the views of appendMessage.  Messages arrive with and without *)
(* body and links; some carry a subject and were encrypted.                *)

UrlsMaxEvents == 2   \* messages received

Links == { <<"hello", "">>, <<"hello", "desc">>, <<"other", "">> }

InitUrls ==
    \E pre \in {0, 1} :
       InitWith(Options(FALSE, FALSE, FALSE, FALSE, pre), FALSE, FALSE, "available",
                "Online", TRUE, FALSE, TRUE)

NextUrls ==
    \/ IncomingMessage({ Msg(<<"net", nextId.net>>, body, "", urlList, FALSE, NoCarbon, {}, StateNone)
                       : body \in {"", "hello"}, urlList \in { << >> } \cup { <<a>> : a \in Links }
                                                              \cup { <<a, b>> : a, b \in Links } }
                     \cup
                     { Msg(<<"net", nextId.net>>, "hello", "re", urlList, enc, NoCarbon, {}, StateNone)
                       : urlList \in { << >>, << <<"other", "">> >> }, enc \in BOOLEAN },
                     UrlsMaxEvents)
    \/ GetHistory({ << >> })

SpecUrls == InitUrls /\ [][NextUrls]_vars

urlsViews(views) == SelectSeq(views, LAMBDA mv : mv.type = Urls)

\* the links of m name one url only, the body, and its last description is empty
onlyRepeatsBody(m) ==
    /\ { m.urlList[i][1] : i \in 1..Len(m.urlList) } = { m.body }
    /\ m.urlList[Len(m.urlList)][2] = ""

\* C8: appendMessage creates a URLs view for a message with links unless the
\* links, without duplicates, are one link whose url is the body and whose
\* description is empty; never for a message without links.
C8_UrlsView ==
    [][ lastEvent' = "incomingMessage" =>
          LET m == received'[Len(received')]
          IN  Len(urlsViews(created(chatView', delayedMessages')))
                = Len(urlsViews(created(chatView, delayedMessages)))
                  + (IF m.urlList # << >> /\ ~onlyRepeatsBody(m) THEN 1 ELSE 0) ]_vars

\* body "hello" with the link {"hello": ""} was received and gave no URLs
\* view, then body "hello" with the link {"hello": "desc"} gave one
C8_Witness ==
    /\ Len(received) = 2
    /\ received[1].body = "hello" /\ received[1].urlList = << <<"hello", "">> >>
    /\ received[2].body = "hello" /\ received[2].urlList = << <<"hello", "desc">> >>
    /\ Len(urlsViews(created(chatView, delayedMessages))) = 1

\* C28: one appendMessage submits its views in the order System (the
\* encryption changed), Subject (the subject is not empty), Message (always,
\* one), URLs (links not suppressed), each at most once: for a received
\* message with content, and for any message appended as local or remote.
C28_ViewOrder ==
    /\ [][ lastEvent' = "incomingMessage" =>
             LET m   == received'[Len(received')]
                 old == created(chatView, delayedMessages)
                 new == created(chatView', delayedMessages')
             IN  /\ SubSeq(new, 1, Len(old)) = old
                 /\ [ i \in 1..(Len(new) - Len(old)) |-> new[Len(old) + i].type ]
                      = IF m.body = "" /\ m.subject = "" /\ m.urlList = << >>
                        THEN << >>
                        ELSE (IF lastWasEncrypted_ # m.wasEncrypted
                              THEN <<System>> ELSE << >>)
                             \o (IF m.subject # "" THEN <<Subject>> ELSE << >>)
                             \o <<Message_>>
                             \o (IF m.urlList # << >> /\ ~onlyRepeatsBody(m)
                                 THEN <<Urls>> ELSE << >>) ]_vars
    /\ [](\A local \in BOOLEAN, enc \in BOOLEAN, subject \in {"", "re"},
             urlList \in { << >>, << <<"hello", "">> >>, << <<"other", "">> >> } :
             LET m   == Msg(<<"net", 0>>, "hello", subject, urlList, enc, NoCarbon, {},
                            StateNone)
                 r   == appendMessage(this, m, local)
                 old == created(chatView, delayedMessages)
                 new == created(r.chatView, r.delayedMessages)
             IN  /\ SubSeq(new, 1, Len(old)) = old
                 /\ [ i \in 1..(Len(new) - Len(old)) |-> new[Len(old) + i].type ]
                      = (IF ~historyState /\ lastWasEncrypted_ # enc
                         THEN <<System>> ELSE << >>)
                        \o (IF subject # "" THEN <<Subject>> ELSE << >>)
                        \o <<Message_>>
                        \o (IF urlList # << >> /\ ~onlyRepeatsBody(m)
                            THEN <<Urls>> ELSE << >>)
                 /\ \A i \in (Len(old) + 1)..Len(new) : new[i].of = m.id)

\* an encrypted message with a subject and a link was received after a plain
\* one: its four views are the last four created
C28_Witness ==
    /\ lastEvent = "incomingMessage"
    /\ Len(received) = 2
    /\ ~received[1].wasEncrypted
    /\ received[2].wasEncrypted /\ received[2].subject = "re"
    /\ received[2].urlList = << <<"other", "">> >>
    /\ LET views == created(chatView, delayedMessages)
           n     == Len(views)
       IN  /\ n >= 5
           /\ <<views[n - 3].type, views[n - 2].type, views[n - 1].type, views[n].type>>
                = <<System, Subject, Message_, Urls>>
           /\ \A i \in (n - 3)..n : views[i].of = received[2].id

-----------------------------------------------------------------------------
(* SpecTyping: one burst of typing.                                        *)
(* Before the first key the peer's notifications arrive and the dialog     *)
(* gets or loses the focus; from the first key on only the keys and the    *)
(* timers act.  The user starts to type when the gate is open and the last *)
(* tracked state is Active, and presses every further key less than one    *)
(* period of composingTimer_ after the previous one.                       *)

TypMaxEvents == 2   \* messages received before the typing starts

InitTyping ==
    \E si \in BOOLEAN, ds \in BOOLEAN, startActive \in BOOLEAN, acct \in BOOLEAN :
       InitWith(Options(TRUE, si, ds, FALSE, 0), FALSE, startActive, "available",
                "Online", acct, FALSE, FALSE)

NextTyping ==
    \/ typingIdle = -1 /\ IncomingMessage({ EventMsg({}, StateActive), EventMsg({}, StateComposing),
                                          NetMsg("", << >>, FALSE, NoCarbon, {ComposingEvent}, StateNone) }, TypMaxEvents)
    \/ typingIdle = -1 /\ Activated
    \/ typingIdle = -1 /\ Deactivated
    \/ /\ typingIdle = -1
       /\ options.sendComposingEvents /\ contactChatState_ # StateNone
       /\ roster = "available" /\ lastChatState_ = StateActive
       /\ SetComposing
    \/ typingIdle \in 0..(ComposingTicks - 1) /\ SetComposing
    \/ CheckComposing
    \/ KeepOpenTimeout
    \/ Tick

SpecTyping == InitTyping /\ [][NextTyping]_vars

\* the chat states transmitted through dj_sendMessage, in order
transmitted(out) ==
    LET cs == SelectSeq(out, LAMBDA x : x.via = "dj_sendMessage" /\ x.chatState # StateNone)
    IN  [ i \in 1..Len(cs) |-> cs[i].chatState ]

\* the states transmitted since the typing started
typed(out) == SelectSeq(transmitted(out), LAMBDA c : c \in {StateComposing, StatePaused})

\* exactly one Composing while the typing goes on, and one Paused after it
\* once composingTimer_ has found the user idle
oneComposingOnePaused ==
    /\ composingTimer_ # -1 => typed(sent) = <<StateComposing>>
    /\ composingTimer_ = -1 =>
          /\ typed(sent) = <<StateComposing, StatePaused>>
          /\ typingIdle >= ComposingTicks
    /\ typingIdle = IdleCap => composingTimer_ \in {-1, 0}

\* C5 (as claimed): with the gate open and the last tracked state Active, a
\* run of keys each within the idle window of the previous one transmits
\* exactly one Composing, and exactly one Paused after the final idle timeout.
C5_OneComposingOnePaused ==
    /\ typingIdle = -1 => typed(sent) = << >>
    /\ typingIdle >= 0 => oneComposingOnePaused

\* C5 (amended): the same, provided that also the option
\* dont-send-composing-events is off and the account is available; if not,
\* the run of keys transmits nothing.
C5_OneComposingOnePausedIfSending ==
    /\ typingIdle = -1 => typed(sent) = << >>
    /\ typingIdle >= 0 =>
          IF ~options.dontSendComposingEvents /\ accountAvailable
          THEN oneComposingOnePaused
          ELSE typed(sent) = << >>

\* the user pressed keys; two periods after the last one the timer has
\* stopped and Composing, then Paused were transmitted
C5_Witness ==
    /\ typingIdle = IdleCap
    /\ composingTimer_ = -1
    /\ lastEvent = "checkComposing"
    /\ typed(sent) = <<StateComposing, StatePaused>>

\* C38: a received message with a body, a subject or links leaves the
\* peer's chat state Active if it carries an event marker or a chat state
\* other than None (whichever), None otherwise; sendComposingEvents_ says
\* whether it carries the composing marker; its Message view is local
\* exactly when the message is the copy of one the user sent (carbon
\* direction Sent).
C38_NormalMessage ==
    /\ [](\A events \in SUBSET {ComposingEvent, CancelEvent}, chatState \in ChatState,
             content \in { <<"hello", "", << >> >>, <<"", "re", << >> >>,
                           <<"", "", << <<"other", "">> >> >> } :
             \A r \in { incomingMessage(this, Msg(<<"net", nextId.net>>, content[1], content[2],
                                                  content[3], FALSE, NoCarbon, events,
                                                  chatState)) } :
                /\ r.contactChatState_
                     = IF events # {} \/ chatState # StateNone THEN StateActive
                       ELSE StateNone
                /\ r.sendComposingEvents_ = (ComposingEvent \in events)
                /\ r.lastChatState_ = lastChatState_)
    /\ [](\A carbon \in {NoCarbon, Received, Sent}, chatState \in {StateNone, StateGone} :
             \A r \in { incomingMessage(this, Msg(<<"net", nextId.net>>, "hello", "re", << >>,
                                                  FALSE, carbon, {}, chatState)) } :
                \A new \in { SelectSeq(r.chatView \o r.delayedMessages.list,
                                        LAMBDA mv : /\ mv.of = <<"net", nextId.net>>
                                                    /\ mv.type = Message_) } :
                   /\ Len(new) = 1
                   /\ new[1].local = (carbon = Sent))
    /\ [][ /\ lastEvent' = "incomingMessage"
           /\ LET m == received'[Len(received')]
              IN  m.body # "" \/ m.subject # "" \/ m.urlList # << >>
           => LET m == received'[Len(received')]
              IN  /\ contactChatState_'
                       = IF m.events # {} \/ m.chatState # StateNone THEN StateActive
                         ELSE StateNone
                  /\ sendComposingEvents_' = (ComposingEvent \in m.events) ]_vars

\* the peer was composing; a message with the composing marker and no
\* chat state left the peer's state Active and sendComposingEvents_ true
C38_Witness ==
    /\ lastEvent = "incomingMessage"
    /\ Len(received) = 2
    /\ received[1].chatState = StateComposing
    /\ received[2].body # "" /\ received[2].chatState = StateNone
    /\ ComposingEvent \in received[2].events
    /\ contactChatState_ = StateActive
    /\ sendComposingEvents_
    /\ ~chatView[Len(chatView)].local

-----------------------------------------------------------------------------
(* SpecChatState: the outbound chat-state machine under every handler that *)
(* calls setChatState, with the peer's notifications and presence.         *)

CsMaxEvents == 1   \* messages and presences received

InitChatState ==
    \E sc \in BOOLEAN, si \in BOOLEAN, ds \in BOOLEAN :
       InitWith(Options(sc, si, ds, FALSE, 0), FALSE, FALSE, "available",
                "Online", TRUE, FALSE, FALSE)

NextChatState ==
    \/ IncomingMessage({ EventMsg({}, StateActive),
                       NetMsg("", << >>, FALSE, NoCarbon, {ComposingEvent}, StateNone) }, CsMaxEvents)
    \/ Presence(CsMaxEvents)
    \/ Activated
    \/ Deactivated
    \/ ReadyToHide
    \/ SetComposing
    \/ CheckComposing
    \/ KeepOpenTimeout
    \/ Tick

SpecChatState == InitChatState /\ [][NextChatState]_vars

\* C34: isComposing_ is set only while composingTimer_ exists; setComposing
\* creates the timer only when there is none and leaves a running one as it
\* is; resetComposing leaves neither timer nor flag; checkComposing clears
\* the flag.
C34_ComposingNeedsTimer ==
    /\ [](isComposing_ => composingTimer_ # -1)
    /\ [](~resetComposing(this).isComposing_ /\ resetComposing(this).composingTimer_ = -1)
    /\ [][ lastEvent' = "setComposing" =>
              /\ isComposing_'
              /\ composingTimer_' = IF composingTimer_ = -1 THEN ComposingTicks
                                    ELSE composingTimer_ ]_vars
    /\ [][ lastEvent' = "checkComposing" =>
              /\ ~isComposing_'
              /\ composingTimer_' = IF isComposing_ THEN ComposingTicks ELSE -1 ]_vars
    /\ [][ lastEvent' = "readyToHide:true" => composingTimer_' = -1 /\ ~isComposing_' ]_vars

\* a key was pressed one second after the timer was started: the timer runs
\* on with one second left
C34_Witness ==
    /\ lastEvent = "setComposing"
    /\ isComposing_
    /\ composingTimer_ = ComposingTicks - 1

\* C37: no two consecutive chat states transmitted by setChatState are the
\* same, whatever the events and the privacy options.
C37_NoRepeatedState ==
    \A i \in 1..(Len(transmitted(sent)) - 1) :
       transmitted(sent)[i] # transmitted(sent)[i + 1]

-----------------------------------------------------------------------------
(* SpecStream: the chat states the peer is sent while it comes and goes,   *)
(* all options on that let them through.                                   *)

StreamMaxEvents == 4   \* notifications and presences received

InitStream ==
    InitWith(Options(TRUE, TRUE, FALSE, FALSE, 0), FALSE, FALSE, "available",
             "Online", TRUE, FALSE, FALSE)

NextStream ==
    \/ IncomingMessage({ EventMsg({}, StateActive) }, StreamMaxEvents)
    \/ Presence(StreamMaxEvents)
    \/ Activated
    \/ Deactivated
    \/ SetComposing
    \/ CheckComposing
    \/ Tick

SpecStream == InitStream /\ [][NextStream]_vars

\* C6 (as claimed): among the chat states transmitted, Inactive never comes
\* directly after Composing, nor Composing directly after Inactive.
C6_PausedBetween ==
    LET cs == transmitted(sent)
    IN  \A i \in 1..(Len(cs) - 1) :
           /\ ~(cs[i] = StateComposing /\ cs[i + 1] = StateInactive)
           /\ ~(cs[i] = StateInactive /\ cs[i + 1] = StateComposing)

\* C9 (as claimed): lastChatState_ is the chat state transmitted last, or
\* None.
C9_TrackedIsTransmitted ==
    \/ lastChatState_ = StateNone
    \/ /\ transmitted(sent) # << >>
       /\ lastChatState_ = transmitted(sent)[Len(transmitted(sent))]

\* C9 (amended): when a handler transmits chat states, lastChatState_ is
\* afterwards the last of them, unless it was Gone and that state is not
\* Active (Gone is kept); lastChatState_ also changes without a
\* transmission.
C9_TransmittedIsTracked ==
    [][ transmitted(sent') # transmitted(sent) =>
          LET new == transmitted(sent')[Len(transmitted(sent'))]
          IN  IF lastChatState_ # StateGone \/ new = StateActive
              THEN lastChatState_' = new
              ELSE lastChatState_' = StateGone ]_vars

\* the window lost the focus while the user was typing, the option
\* send-inactivity-events off: Paused was transmitted and is tracked
C9_Witness ==
    /\ lastEvent = "deactivated"
    /\ ~options.sendInactivityEvents
    /\ transmitted(sent) # << >>
    /\ transmitted(sent)[Len(transmitted(sent))] = StatePaused
    /\ lastChatState_ = StatePaused

\* the option send-composing-events is off, or the peer neither asked for
\* composing events nor has a known chat state
gateClosed ==
    ~(options.sendComposingEvents
      /\ (sendComposingEvents_ \/ contactChatState_ # StateNone))

\* C10: with the gate closed setChatState changes nothing, whatever state is
\* requested, and no handler transmits a state notification then.
C10_GateClosed ==
    /\ [](gateClosed =>
             \A state \in ChatState \ {StateNone} : setChatState(this, state) = this)
    /\ [][ gateClosed =>
             SelectSeq(sent', LAMBDA x : x.via = "dj_sendMessage")
               = SelectSeq(sent, LAMBDA x : x.via = "dj_sendMessage") ]_vars

\* the dialog got the focus with the gate closed, the peer's chat state
\* known but the option off: nothing was transmitted, nothing is tracked
C10_Witness ==
    /\ lastEvent = "activated"
    /\ ~options.sendComposingEvents
    /\ contactChatState_ # StateNone
    /\ sent = << >>
    /\ lastChatState_ = StateNone

-----------------------------------------------------------------------------
(* The options of the outbound chat-state machine, under SpecChatState *)

\* C11: with send-inactivity-events off no chat state transmitted is Gone or
\* Inactive, lastChatState_ is neither, and a request of Gone or Inactive
\* does what a request of Paused does.
C11_InactivityHidden ==
    ~options.sendInactivityEvents =>
       /\ \A i \in 1..Len(transmitted(sent)) :
             transmitted(sent)[i] \notin {StateGone, StateInactive}
       /\ lastChatState_ \notin {StateGone, StateInactive}
       /\ \A state \in {StateGone, StateInactive} :
             setChatState(this, state) = setChatState(this, StatePaused)

\* the window was closed while the user was typing, the option off: the
\* request of Gone transmitted Paused
C11_Witness ==
    /\ ~options.sendInactivityEvents
    /\ lastEvent = "readyToHide:true"
    /\ Len(transmitted(sent)) >= 2
    /\ transmitted(sent)[Len(transmitted(sent)) - 1] = StateComposing
    /\ transmitted(sent)[Len(transmitted(sent))] = StatePaused
    /\ lastChatState_ = StatePaused

\* C12: with dont-send-composing-events on setChatState transmits nothing,
\* whatever the state requested and the state tracked: no chat state, no
\* composing or cancel event, no intermediate Paused.
C12_DontSend ==
    options.dontSendComposingEvents =>
       /\ SelectSeq(sent, LAMBDA x : x.via = "dj_sendMessage") = << >>
       /\ \A state \in ChatState \ {StateNone} : setChatState(this, state).sent = sent

\* the option on, the gate open: the user typed and the window lost the
\* focus, Composing then Inactive were tracked and nothing was transmitted
C12_Witness ==
    /\ options.dontSendComposingEvents
    /\ options.sendInactivityEvents
    /\ lastEvent = "deactivated"
    /\ lastChatState_ = StateInactive
    /\ typingIdle >= 0
    /\ sent = << >>

\* C21: with the gate open and the contact reachable, a request whose
\* downgraded state is Paused or Inactive while lastChatState_ is None, or
\* Inactive while it is Gone, transmits nothing and changes nothing; from
\* None only Active, Composing or Gone are transmitted.
C21_InvalidTransitions ==
    ~gateClosed /\ roster = "available" =>
       \A requested \in ChatState \ {StateNone} :
          LET state == privacyState(requested)
              r     == setChatState(this, requested)
          IN  /\ \/ lastChatState_ = StateNone /\ state \in {StatePaused, StateInactive}
                 \/ lastChatState_ = StateGone /\ state = StateInactive
                 => r = this
              /\ lastChatState_ = StateNone =>
                    \A i \in (Len(transmitted(sent)) + 1)..Len(transmitted(r.sent)) :
                       transmitted(r.sent)[i] \in {StateActive, StateComposing, StateGone}

\* the dialog got the focus with the gate closed, then the peer's chat
\* state became known; the window lost the focus: Inactive was requested
\* with None tracked, nothing was transmitted and None is still tracked
C21_Witness ==
    /\ lastEvent = "deactivated"
    /\ ~gateClosed
    /\ roster = "available"
    /\ options.sendInactivityEvents
    /\ ~options.dontSendComposingEvents
    /\ lastChatState_ = StateNone
    /\ sent = << >>

-----------------------------------------------------------------------------
(* SpecReach: the peer is in the roster or not, and comes and goes *)

ReachMaxEvents == 2   \* messages and presences received

InitReach ==
    \E rost \in {"none", "available"}, startActive \in BOOLEAN :
       InitWith(Options(TRUE, TRUE, FALSE, FALSE, 0), FALSE, startActive, rost,
                "Online", TRUE, FALSE, FALSE)

NextReach ==
    \/ IncomingMessage({ EventMsg({}, StateActive),
                       NetMsg("", << >>, FALSE, NoCarbon, {ComposingEvent}, StateNone) }, ReachMaxEvents)
    \/ Presence(ReachMaxEvents)
    \/ Activated
    \/ Deactivated
    \/ SetComposing
    \/ CheckComposing
    \/ KeepOpenTimeout
    \/ Tick

SpecReach == InitReach /\ [][NextReach]_vars

\* C13 (as claimed): a call of setChatState while the contact is not
\* reachable transmits nothing and leaves lastChatState_ None.
C13_UnreachableResets ==
    [][ roster # "available" /\ lastEvent' \in {"activated", "deactivated"} =>
           /\ sent' = sent
           /\ lastChatState_' = StateNone ]_vars

\* C13 (amended): a call of setChatState while the contact is not reachable
\* transmits nothing; with the gate open it sets lastChatState_ to None and
\* sendComposingEvents_ to false, with the gate closed it changes nothing.
C13_UnreachableResetsBehindGate ==
    /\ [](roster # "available" =>
             \A state \in ChatState \ {StateNone} :
                LET r == setChatState(this, state)
                IN  IF gateClosed THEN r = this
                    ELSE r = [this EXCEPT !.lastChatState_ = StateNone,
                                          !.sendComposingEvents_ = FALSE])
    /\ [][ roster # "available" /\ lastEvent' \in {"activated", "deactivated"} =>
              /\ sent' = sent
              /\ lastChatState_' = IF gateClosed THEN lastChatState_ ELSE StateNone ]_vars

\* the peer asked for composing events and went offline; the window lost
\* the focus: the state tracked since the activation was reset
C13_Witness ==
    /\ roster = "unavailable"
    /\ lastEvent = "deactivated"
    /\ transmitted(sent) = <<StateActive>>
    /\ lastChatState_ = StateNone
    /\ ~sendComposingEvents_

-----------------------------------------------------------------------------
(* SpecWindow: the window gets and loses the focus, is minimised and       *)
(* closed, while messages and notifications arrive and the user types and  *)
(* sends.  No time passes: the timers stay as they were armed.             *)

WinMaxEvents == 2   \* messages and presences received, messages sent

InitWindow ==
    InitWith(Options(TRUE, TRUE, FALSE, FALSE, 0), FALSE, FALSE, "available",
             "Online", TRUE, FALSE, FALSE)

NextWindow ==
    \/ IncomingMessage({ NetMsg("", << >>, FALSE, NoCarbon, {ComposingEvent}, StateNone),
                         EventMsg({ComposingEvent}, StateNone),
                         EventMsg({CancelEvent}, StateGone),
                         EventMsg({}, StateInactive) }, WinMaxEvents)
    \/ Presence(WinMaxEvents)
    \/ DoSend({"hi"}, WinMaxEvents)
    \/ Activated
    \/ Deactivated
    \/ HideEvent
    \/ ReadyToHide
    \/ SetComposing

SpecWindow == InitWindow /\ [][NextWindow]_vars

\* C23 (as claimed): once Gone is tracked only a request of Active
\* overwrites it: no other request does, whether or not the contact is
\* reachable, and no handler that requests another state.
C23_GoneUntilActive ==
    /\ [](lastChatState_ = StateGone =>
             \A requested \in ChatState \ {StateNone, StateActive} :
                setChatState(this, requested).lastChatState_ = StateGone)
    /\ [][ lastChatState_ = StateGone /\ lastChatState_' # StateGone
              => lastEvent' \in {"activated", "doSend", "doSend:failed"} ]_vars

\* C23 (amended): once Gone is tracked, a request made with the gate open
\* while the contact is not reachable resets it to None, whatever the state
\* requested; otherwise only a request of Active with the gate open
\* overwrites it, by Active.
C23_GoneUntilActiveOrUnreachable ==
    /\ [](lastChatState_ = StateGone =>
             \A requested \in ChatState \ {StateNone} :
                setChatState(this, requested).lastChatState_ =
                   IF gateClosed THEN StateGone
                   ELSE IF roster # "available" THEN StateNone
                   ELSE IF requested = StateActive THEN StateActive
                   ELSE StateGone)
    /\ [][ lastChatState_ = StateGone /\ lastChatState_' # StateGone
              => \/ /\ lastEvent' \in {"activated", "doSend", "doSend:failed"}
                    /\ lastChatState_' = StateActive
                 \/ /\ roster # "available" /\ ~gateClosed /\ lastChatState_' = StateNone
                    /\ lastEvent' \in {"activated", "deactivated", "hideEvent",
                                       "readyToHide:true", "setComposing", "doSend",
                                       "doSend:failed"} ]_vars

\* the window was closed and Gone transmitted; the user typed again:
\* Composing was transmitted and Gone is still tracked
C23_Witness ==
    /\ lastEvent = "setComposing"
    /\ lastChatState_ = StateGone
    /\ Len(transmitted(sent)) >= 2
    /\ transmitted(sent)[Len(transmitted(sent)) - 1] = StateGone
    /\ transmitted(sent)[Len(transmitted(sent))] = StateComposing

\* C24: a successful readyToHide disarms the composing timer, requests
\* Gone, turns a remote chat state Composing or Inactive into Paused and
\* leaves any other as it is, transmits nothing beyond what the request of
\* Gone transmits, and leaves pending 0.
C24_ReadyToHide ==
    [][ lastEvent' = "readyToHide:true" =>
           LET gone == setChatState(this, StateGone)
           IN  /\ composingTimer_' = -1
               /\ ~isComposing_' \/ composingTimer_ = -1
               /\ lastChatState_' = gone.lastChatState_
               /\ sendComposingEvents_' = gone.sendComposingEvents_
               /\ sent' = gone.sent
               /\ contactChatState_' =
                     IF contactChatState_ \in {StateComposing, StateInactive}
                     THEN StatePaused ELSE contactChatState_
               /\ chatView' = chatView
               /\ pending_' = 0 ]_vars

\* a message came while the window had no focus, then the peer went
\* Inactive; the user typed and closed the window: Gone is transmitted, the
\* peer is shown as Paused, nothing is pending, no timer runs
C24_Witness ==
    /\ lastEvent = "readyToHide:true"
    /\ Len(received) = WinMaxEvents
    /\ received[1].body # ""
    /\ received[Len(received)].chatState = StateInactive
    /\ contactChatState_ = StatePaused
    /\ typingIdle = 0
    /\ composingTimer_ = -1
    /\ pending_ = 0
    /\ lastChatState_ = StateGone
    /\ transmitted(sent)[Len(transmitted(sent))] = StateGone

\* C25: a state notification (no body, subject or links) with an explicit
\* chat state sets the remote chat state to it, whatever legacy event it
\* carries; without one a composing event sets Composing, a cancel event
\* Paused, and neither leaves the remote state as it is; exactly when the
\* state set is Gone one System notice is added to the transcript.
C25_RemoteState ==
    \A ev \in {{}, {ComposingEvent}, {CancelEvent}}, cs \in ChatState :
       LET r      == incomingMessage(this, EventMsg(ev, cs))
           before == created(chatView, delayedMessages)
           after  == created(r.chatView, r.delayedMessages)
       IN  /\ r.contactChatState_ =
                 IF cs # StateNone THEN cs
                 ELSE IF ev = {ComposingEvent} THEN StateComposing
                 ELSE IF ev = {CancelEvent} THEN StatePaused
                 ELSE contactChatState_
           /\ IF cs = StateGone
              THEN /\ Len(after) = Len(before) + 1
                   /\ SubSeq(after, 1, Len(before)) = before
                   /\ after[Len(after)].type = System
              ELSE after = before
           /\ r.sent = sent
           /\ r.lastChatState_ = lastChatState_

\* a notification with a cancel event and the chat state Gone arrived:
\* the peer is Gone, not Paused, and the notice closes the transcript
C25_Witness ==
    /\ lastEvent = "incomingMessage"
    /\ received # << >>
    /\ received[Len(received)].events = {CancelEvent}
    /\ received[Len(received)].chatState = StateGone
    /\ contactChatState_ = StateGone
    /\ chatView # << >>
    /\ chatView[Len(chatView)].type = System

-----------------------------------------------------------------------------
\* C27: deactivated requests Inactive and leaves the composing timer as it
\* is; a hide event of a minimized window deletes the timer and requests
\* Inactive, one of a window not minimized changes nothing; activated zeroes
\* pending_ and requests Active.
C27_WindowEvents ==
    [][ /\ lastEvent' = "deactivated" =>
              /\ this' = setChatState(this, StateInactive)
              /\ composingTimer_' = composingTimer_
              /\ isComposing_' = isComposing_
        /\ lastEvent' = "hideEvent" /\ isMinimized' =>
              /\ composingTimer_' = -1
              /\ composingTimer_ # -1 => ~isComposing_'
              /\ lastChatState_' = setChatState(this, StateInactive).lastChatState_
              /\ sendComposingEvents_' = setChatState(this, StateInactive).sendComposingEvents_
              /\ sent' = setChatState(this, StateInactive).sent
        /\ lastEvent' = "hideEvent" /\ ~isMinimized' => this' = this
        /\ lastEvent' = "activated" =>
              /\ pending_' = 0
              /\ this' = [setChatState(this, StateActive) EXCEPT !.pending_ = 0] ]_vars

\* the user was typing when the window lost the focus: Inactive was sent
\* and the composing timer still runs
C27_Witness ==
    /\ lastEvent = "deactivated"
    /\ composingTimer_ # -1
    /\ isComposing_
    /\ lastChatState_ = StateInactive
    /\ Len(sent) > 0
    /\ sent[Len(sent)].chatState = StateInactive

-----------------------------------------------------------------------------
(* Encrypted sends, under SpecEnc *)

\* C14: a completion whose id is not the outstanding transaction, or that
\* comes when none is outstanding, is ignored: the dialog is left as it is
\* (transcript, held views, input, transid_, historyState, composing state).
C14_StaleCompletionIgnored ==
    /\ [](\A x \in 0..(EncMaxEvents + 1), b \in BOOLEAN :
             transid_ = -1 \/ x # transid_ => encryptedMessageSent(this, x, b) = this)
    /\ [][ lastEvent' = "encryptedMessageSent:ignored" =>
              UNCHANGED << chatView, delayedMessages, chatEditEnabled, transid_,
                           historyState, isComposing_, composingTimer_, sent, m_,
                           lastWasEncrypted_, pending_ >> ]_vars

\* a send is being encrypted (input disabled) and the completion of another
\* dialog's send arrived
C14_Witness ==
    /\ lastEvent = "encryptedMessageSent:ignored"
    /\ transid_ # -1
    /\ ~chatEditEnabled
    /\ m_ # NoMsg

\* what doSend handed to the transport: aSend and sendPgpEncryptedMessage
userSent(out) == SelectSeq(out, LAMBDA x : x.via # "dj_sendMessage")

\* C15: when an encrypted send fails, by a completion without success or by
\* the transport returning -1, nothing is appended, the input is enabled
\* again, no transaction is outstanding, and nothing is sent again.
C15_FailedSendLeftUnsent ==
    /\ [][ lastEvent' \in {"encryptedMessageSent:failed", "doSend:failed"} =>
              /\ chatView' = chatView
              /\ delayedMessages' = delayedMessages
              /\ chatEditEnabled'
              /\ transid_' = -1
              /\ userSent(sent') = userSent(sent) ]_vars
    /\ [][ lastEvent' # "doSend" => userSent(sent') = userSent(sent) ]_vars
    /\ [](\A i, j \in 1..Len(userSent(sent)) :
             userSent(sent)[i].id = userSent(sent)[j].id => i = j)

\* the transport reported the failure of the outstanding send: the input is
\* enabled and the message is in no view
C15_Witness ==
    /\ lastEvent = "encryptedMessageSent:failed"
    /\ chatEditEnabled
    /\ transid_ = -1
    /\ m_ # NoMsg
    /\ \A i \in 1..Len(chatView) : chatView[i].of # m_.id
    /\ \A i \in 1..Len(delayedMessages.list) : delayedMessages.list[i].of # m_.id

\* C39: updateContact for the peer leaves the peer's chat state None if the
\* resolved status is Offline; Paused if the status changed, the peer is
\* not offline and the state was Composing or Inactive; as it was in every
\* other case.  It never changes lastChatState_.
C39_PresenceAndRemoteState ==
    /\ [](\A statusType \in {"Offline", "Online", "Away"}, otherChanged \in BOOLEAN,
             fromPresence \in BOOLEAN :
             \A r \in { updateContact(this, TRUE, statusType, otherChanged, fromPresence) } :
                /\ r.lastChatState_ = lastChatState_
                /\ r.contactChatState_
                     = IF statusType = "Offline" THEN StateNone
                       ELSE IF /\ status_ # statusType \/ otherChanged
                               /\ contactChatState_ \in {StateComposing, StateInactive}
                       THEN StatePaused
                       ELSE contactChatState_)
    /\ [][ lastEvent' = "updateContact" =>
             /\ lastChatState_' = lastChatState_
             /\ roster' = "unavailable" => contactChatState_' = StateNone
             /\ roster' = "available" =>
                   contactChatState_' \in {contactChatState_, StatePaused}
             /\ contactChatState_' = StatePaused /\ contactChatState_ # StatePaused
                   => contactChatState_ \in {StateComposing, StateInactive} ]_vars

\* the peer had gone inactive; a presence with a new status text left the
\* peer's state Paused
C39_Witness ==
    /\ lastEvent = "updateContact"
    /\ roster = "available"
    /\ received # << >>
    /\ received[Len(received)].chatState = StateInactive
    /\ contactChatState_ = StatePaused

-----------------------------------------------------------------------------
(* SpecWarn: the confirmation of a send after encryption was disabled.     *)
(* Messages arrive encrypted or not, from the peer or as copies of what    *)
(* the user sent elsewhere; the user sends, with PGP or without.           *)

WarnMaxEvents  == 3   \* messages received and messages sent
WarnMaxBacklog == 1   \* stored events the history request returns

InitWarn ==
    \E pre \in {0, 1}, pgp \in BOOLEAN :
       InitWith(Options(TRUE, TRUE, FALSE, FALSE, pre), FALSE, FALSE, "available",
                "Online", TRUE, pgp, TRUE)

NextWarn ==
    \/ IncomingMessage({ NetMsg("", << >>, enc, carbon, {}, StateNone)
                         : enc \in BOOLEAN, carbon \in {NoCarbon, Sent} }
                       \cup { EventMsg({}, StateActive) }, WarnMaxEvents)
    \/ DoSend({"hi"}, WarnMaxEvents)
    \/ EncryptedMessageSent
    \/ GetHistory(HistoryResults({ <<"Message", "", enc, FALSE>> : enc \in BOOLEAN },
                  Min(preloadCount(options.preloadHistorySize), WarnMaxBacklog)))
    \/ WarnSendTimeout
    \/ KeepOpenTimeout
    \/ Tick

SpecWarn == InitWarn /\ [][NextWarn]_vars

\* C16: warnSend_ is set exactly by a received remote message that takes
\* the encryption from enabled to disabled; nothing else sets it; a doSend
\* that reaches the question clears it and, declined, sends and appends
\* nothing.
C16_WarnSend ==
    /\ [][ lastEvent' = "incomingMessage" =>
              LET m == received'[Len(received')]
              IN  IF /\ m.body # "" \/ m.subject # "" \/ m.urlList # << >>
                     /\ m.carbonDirection # Sent
                     /\ lastWasEncrypted_ /\ ~m.wasEncrypted
                  THEN warnSend_'
                  ELSE warnSend_' = warnSend_ ]_vars
    /\ [][ lastEvent' # "incomingMessage" /\ warnSend_' => warnSend_ ]_vars
    /\ [][ lastEvent' \in {"doSend", "doSend:declined", "doSend:failed"} => ~warnSend_' ]_vars
    /\ [][ lastEvent' = "doSend:declined" =>
              /\ warnSend_
              /\ UNCHANGED << sent, chatView, delayedMessages, m_, transid_ >> ]_vars

\* the encryption was disabled by the peer, the user sent within three
\* seconds and declined
C16_Witness ==
    /\ lastEvent = "doSend:declined"
    /\ ~warnSend_
    /\ ~lastWasEncrypted_
    /\ warnSendTimers # {}

\* C26: a doSend past its early returns requests Active before it hands
\* the message to the transport: what the request transmits precedes the
\* message, and with the gate open and the contact reachable Active is
\* tracked when the message goes out.
C26_ActiveBeforeSend ==
    [][ lastEvent' \in {"doSend", "doSend:failed"} =>
           LET act == setChatState(this, StateActive)
           IN  /\ lastChatState_' = act.lastChatState_
               /\ sendComposingEvents_' = act.sendComposingEvents_
               /\ ~gateClosed /\ roster = "available" => lastChatState_' = StateActive
               /\ IF lastEvent' = "doSend"
                  THEN /\ Len(sent') = Len(act.sent) + 1
                       /\ SubSeq(sent', 1, Len(act.sent)) = act.sent
                       /\ sent'[Len(sent')].via \in {"aSend", "sendPgpEncryptedMessage"}
                  ELSE sent' = act.sent ]_vars

\* the peer's chat state is known; the first message is sent encrypted:
\* Active was transmitted, then the message, and Active is tracked
C26_Witness ==
    /\ lastEvent = "doSend"
    /\ pgpEnabled
    /\ Len(sent) = 2
    /\ sent[1].via = "dj_sendMessage" /\ sent[1].chatState = StateActive
    /\ sent[2].via = "sendPgpEncryptedMessage"
    /\ lastChatState_ = StateActive

-----------------------------------------------------------------------------
(* SpecKeep: the one-second guard against closing the window right after   *)
(* a message arrived.  No encryption and no status line, so the only views *)
(* are Message views: of the peer, of the user, of the history.            *)

KeepMaxEvents  == 2   \* messages received and messages sent
KeepMaxBacklog == 1   \* stored events the history request returns

InitKeep ==
    \E pre \in {0, 1} :
       InitWith(Options(FALSE, FALSE, FALSE, FALSE, pre), FALSE, FALSE, "available",
                "Online", TRUE, FALSE, TRUE)

NextKeep ==
    \/ IncomingMessage({ NetMsg("", << >>, FALSE, NoCarbon, {}, StateNone) }, KeepMaxEvents)
    \/ DoSend({"hi"}, KeepMaxEvents)
    \/ GetHistory(HistoryResults({ <<"Message", "", FALSE, originLocal>> : originLocal \in BOOLEAN },
                  Min(preloadCount(options.preloadHistorySize), KeepMaxBacklog)))
    \/ ReadyToHide
    \/ KeepOpenTimeout
    \/ Tick

SpecKeep == InitKeep /\ [][NextKeep]_vars

\* the last view displayed is the Message view of the message received last
freshRemoteShown(view, log) ==
    /\ view # << >> /\ log # << >>
    /\ view[Len(view)].of = log[Len(log)].id
    /\ view[Len(view)].type = Message_

\* C17 (as claimed): the display of a freshly arrived remote message sets
\* keepOpen_, which then stays set until one second has passed since
\* (unless readyToHide succeeds), also when messages arrive less than a
\* second apart; the display of history views or of the user's own messages
\* does not set it.
C17_KeepOpenOneSecond ==
    /\ [][ lastEvent' = "incomingMessage" /\ freshRemoteShown(chatView', received')
              => keepOpen_' ]_vars
    /\ [][ lastEvent = "incomingMessage" /\ freshRemoteShown(chatView, received)
              /\ lastEvent' # "readyToHide:true"
              => keepOpen_' ]_vars
    /\ [][ lastEvent' = "getHistory" /\ delayedMessages.list = << >> /\ keepOpen_'
              => keepOpen_ ]_vars
    /\ [][ lastEvent' = "doSend" /\ keepOpen_' => keepOpen_ ]_vars

-----------------------------------------------------------------------------
(* SpecIdle: the periodic composing timer.                                 *)
(* The user presses a key when no timer runs, which arms it, or in the     *)
(* middle of a period: a key press and a timeout never fall on the same    *)
(* instant.  So when the timer fires typingIdle tells what happened:       *)
(*   below ComposingTicks   a key was pressed since the previous firing;  *)
(*   ComposingTicks         first firing, no key since the one that armed; *)
(*   above ComposingTicks   no key since the previous firing.              *)

IdleMaxEvents == 1   \* notifications received

InitIdle ==
    \E ds \in BOOLEAN, startActive \in BOOLEAN, acct \in BOOLEAN :
       InitWith(Options(TRUE, TRUE, ds, FALSE, 0), FALSE, startActive, "available",
                "Online", acct, FALSE, TRUE)

NextIdle ==
    \/ IncomingMessage({ EventMsg({}, StateActive), EventMsg({}, StateNone) }, IdleMaxEvents)
    \/ composingTimer_ = -1 /\ SetComposing
    \/ composingTimer_ \in 1..(ComposingTicks - 1) /\ SetComposing
    \/ CheckComposing
    \/ Tick

SpecIdle == InitIdle /\ [][NextIdle]_vars

\* the firing emits nothing and the timer runs on
firedSilent ==
    /\ composingTimer_' = ComposingTicks
    /\ ~isComposing_'
    /\ UNCHANGED << sent, lastChatState_, sendComposingEvents_ >>

\* the firing disarms the timer and emits composing(false): Paused is
\* requested, so tracked if the gate is open, and transmitted if it may be
firedPaused ==
    /\ composingTimer_' = -1
    /\ ~isComposing_'
    /\ ~gateClosed /\ lastChatState_ = StateComposing => lastChatState_' = StatePaused
    /\ transmitted(sent') =
          IF ~gateClosed /\ lastChatState_ = StateComposing
             /\ contactChatState_ # StateNone
             /\ ~options.dontSendComposingEvents /\ accountAvailable
          THEN Append(transmitted(sent), StatePaused)
          ELSE transmitted(sent)

\* C20 (as claimed): a firing with no key pressed since the timer was armed
\* emits composing(false) and disarms the timer; a firing with a key
\* pressed since the previous firing emits nothing and leaves it armed.
C20_IdleFiring ==
    [][ lastEvent' = "checkComposing" =>
           /\ typingIdle \in {ComposingTicks, IdleCap} => firedPaused
           /\ typingIdle < ComposingTicks => firedSilent ]_vars

\* C20 (amended): the key that arms the timer counts as typing, so the
\* first firing after it never emits; a later firing emits composing(false)
\* and disarms the timer iff no key was pressed since the previous firing.
C20_IdleFiringAfterFirst ==
    [][ lastEvent' = "checkComposing" =>
           /\ typingIdle > ComposingTicks => firedPaused
           /\ typingIdle <= ComposingTicks => firedSilent ]_vars

\* the user typed on for a while and stopped: the second firing after the
\* last key disarmed the timer and Paused followed Composing
C20_Witness ==
    /\ lastEvent = "checkComposing"
    /\ composingTimer_ = -1
    /\ typingIdle = IdleCap - 1
    /\ Len(transmitted(sent)) >= 2
    /\ transmitted(sent)[Len(transmitted(sent))] = StatePaused
    /\ transmitted(sent)[Len(transmitted(sent)) - 1] = StateComposing

-----------------------------------------------------------------------------
(* PsiIconset: texts are sequences of characters.                          *)

\* all sequences over S of length at most n
SeqsUpTo(S, n) == UNION { [1..k -> S] : k \in 0..n }

\* QString::startsWith
startsWith(text, s) ==
    Len(s) <= Len(text) /\ \A i \in 1..Len(s) : text[i] = s[i]

\* the positions (from 0) at or after from where s occurs in text
occurrences(text, s, from) ==
    { p \in from..(Len(text) - Len(s)) : \A i \in 1..Len(s) : text[p + i] = s[i] }

\* QString::indexOf(s, from): the first such position, or -1
indexOf(text, s, from) ==
    LET P == occurrences(text, s, from)
    IN  IF P = {} THEN -1 ELSE CHOOSE p \in P : \A q \in P : p <= q

\* QRegExp::indexIn for a regular expression without metacharacters: the
\* pattern is searched as it stands; the empty pattern matches at 0
indexIn(regexp, text) == indexOf(text, regexp, 0)

\* Jid::bare()
bare(jid) ==
    IF jid.node = << >> THEN jid.domain ELSE jid.node \o << "@" >> \o jid.domain

\* IconsetFactory::iconPtr(iconName): the icon of the global factory
iconPtr(iconName) == [iconset |-> "IconsetFactory", name |-> iconName]

\* psi->roster.value(item.iconset) and then is->icon(iconName), both non-null
hasIcon(ros, item, iconName) ==
    item.iconset \in DOMAIN ros /\ iconName \in ros[item.iconset]

\* the item of items with the lowest index among Hits
firstOf(items, Hits) == items[CHOOSE i \in Hits : \A j \in Hits : i <= j]

\* jid2icon with the services loop running to its end: the last item wins
jid2icon_lastService(si, ros, jid, iconName) ==
    LET first  == iconPtr(iconName)
        S      == { i \in 1..Len(si.list) :
                      /\ IF si.list[i].regexp = << >>
                         THEN jid.node = << >>
                         ELSE indexIn(si.list[i].regexp, jid.domain) # -1
                      /\ hasIcon(ros, si.list[i], iconName) }
        second == IF (jid.node = << >> \/ si.useServicesIcons) /\ S # {}
                  THEN [iconset |-> si.list[CHOOSE i \in S : \A j \in S : j <= i].iconset,
                        name |-> iconName]
                  ELSE first
        C      == { i \in 1..Len(si.customList) :
                      /\ indexIn(si.customList[i].regexp, bare(jid)) # -1
                      /\ hasIcon(ros, si.customList[i], iconName) }
    IN  IF C # {}
        THEN [iconset |-> firstOf(si.customList, C).iconset, name |-> iconName]
        ELSE second

\* jid2icon with the two loops exchanged: the services loop runs last
jid2icon_servicesLast(si, ros, jid, iconName) ==
    LET first  == iconPtr(iconName)
        C      == { i \in 1..Len(si.customList) :
                      /\ indexIn(si.customList[i].regexp, bare(jid)) # -1
                      /\ hasIcon(ros, si.customList[i], iconName) }
        second == IF C = {} THEN first
                  ELSE [iconset |-> firstOf(si.customList, C).iconset, name |-> iconName]
        S      == { i \in 1..Len(si.list) :
                      /\ IF si.list[i].regexp = << >>
                         THEN jid.node = << >>
                         ELSE indexIn(si.list[i].regexp, jid.domain) # -1
                      /\ hasIcon(ros, si.list[i], iconName) }
    IN  IF (jid.node = << >> \/ si.useServicesIcons) /\ S # {}
        THEN [iconset |-> firstOf(si.list, S).iconset, name |-> iconName]
        ELSE second

\* PsiIconset::Private::jid2icon: each loop stops at its first item that
\* matches, whose icon set is loaded and holds iconName
jid2icon(si, ros, jid, iconName) ==
    LET first  == iconPtr(iconName)
        S      == { i \in 1..Len(si.list) :
                      /\ IF si.list[i].regexp = << >>
                         THEN jid.node = << >>
                         ELSE indexIn(si.list[i].regexp, jid.domain) # -1
                      /\ hasIcon(ros, si.list[i], iconName) }
        second == IF (jid.node = << >> \/ si.useServicesIcons) /\ S # {}
                  THEN [iconset |-> firstOf(si.list, S).iconset, name |-> iconName]
                  ELSE first
        C      == { i \in 1..Len(si.customList) :
                      /\ indexIn(si.customList[i].regexp, bare(jid)) # -1
                      /\ hasIcon(ros, si.customList[i], iconName) }
    IN  IF C # {}
        THEN [iconset |-> firstOf(si.customList, C).iconset, name |-> iconName]
        ELSE second

-----------------------------------------------------------------------------
(* SpecIcons: jid2icon over small rule lists, icon sets and addresses.     *)

IconMaxRules  == 2   \* items of status_icons.list
IconMaxCustom == 2   \* items of status_icons.customList

IconsetNames   == { "A", "B" }
IconNames      == { "status/online" }

\* the dialog of the specifications that only call PsiIconset
InitIdleDialog ==
    InitDialog(Options(FALSE, FALSE, FALSE, FALSE, 0), FALSE, FALSE, "none",
               "Offline", FALSE, FALSE, FALSE)

InitIcons ==
    /\ InitIdleDialog
    /\ status_icons \in
          [useServicesIcons : BOOLEAN,
           list : SeqsUpTo([regexp : { << >>, << "a" >> }, iconset : IconsetNames], IconMaxRules),
           customList : SeqsUpTo([regexp : { << "a" >>, << "b" >> }, iconset : IconsetNames],
                                 IconMaxCustom)]
    /\ \E Loaded \in SUBSET IconsetNames :
          iconsetRoster \in [Loaded -> SUBSET IconNames]
    /\ client2icon = << >>
    /\ returned = NoCall

Jid2Icon ==
    \E jid \in [node : { << >>, << "b" >> }, domain : { << "a" >>, << "b" >> }], iconName \in IconNames :
       /\ returned' = [fn |-> "jid2icon", jid |-> jid, iconName |-> iconName,
                       value |-> jid2icon(status_icons, iconsetRoster, jid, iconName)]
       /\ UNCHANGED << dlgVars, status_icons, iconsetRoster, client2icon >>

SpecIcons == InitIcons /\ [][Jid2Icon]_vars

\* the custom rules that match the peer's bare address and whose icon set,
\* loaded, holds the icon asked for
customCandidates ==
    { i \in 1..Len(status_icons.customList) :
        /\ occurrences(bare(returned.jid), status_icons.customList[i].regexp, 0) # {}
        /\ status_icons.customList[i].iconset \in DOMAIN iconsetRoster
        /\ returned.iconName \in iconsetRoster[status_icons.customList[i].iconset] }

\* the service rules that apply to the peer and whose icon set holds the icon
serviceCandidates ==
    { i \in 1..Len(status_icons.list) :
        /\ returned.jid.node = << >> \/ status_icons.useServicesIcons
        /\ IF status_icons.list[i].regexp = << >>
           THEN returned.jid.node = << >>
           ELSE occurrences(returned.jid.domain, status_icons.list[i].regexp, 0) # {}
        /\ status_icons.list[i].iconset \in DOMAIN iconsetRoster
        /\ returned.iconName \in iconsetRoster[status_icons.list[i].iconset] }

\* C18: when a custom rule matches the peer address and its icon set holds
\* the icon asked for, jid2icon returns the icon of the first such custom
\* rule in registration order, whether or not a service rule matches too.
C18_CustomWins ==
    returned.fn = "jid2icon" /\ customCandidates # {} =>
        \E i \in customCandidates :
           /\ \A j \in customCandidates : i <= j
           /\ returned.value = [iconset |-> status_icons.customList[i].iconset,
                                name |-> returned.iconName]

\* two custom rules and a service rule all match and hold the icon; the
\* first custom rule names another icon set than the other two
C18_Witness ==
    /\ returned.fn = "jid2icon"
    /\ customCandidates = {1, 2}
    /\ serviceCandidates = {1}
    /\ status_icons.customList[1].iconset # status_icons.customList[2].iconset
    /\ status_icons.customList[1].iconset # status_icons.list[1].iconset
    /\ returned.value.iconset = status_icons.customList[1].iconset

\* C30 (as claimed): when no custom rule applies and a service rule matches
\* (its pattern occurs in the domain; the empty pattern matches the addresses
\* without node) and its icon set holds the icon, jid2icon returns the icon
\* of the first such rule, with or without a node in the address and
\* whatever useServicesIcons is.
C30_FirstServiceRule ==
    LET S == { i \in 1..Len(status_icons.list) :
                 /\ IF status_icons.list[i].regexp = << >>
                    THEN returned.jid.node = << >>
                    ELSE occurrences(returned.jid.domain, status_icons.list[i].regexp, 0) # {}
                 /\ status_icons.list[i].iconset \in DOMAIN iconsetRoster
                 /\ returned.iconName \in iconsetRoster[status_icons.list[i].iconset] }
    IN  returned.fn = "jid2icon" /\ customCandidates = {} /\ S # {} =>
           \E i \in S :
              /\ \A j \in S : i <= j
              /\ returned.value = [iconset |-> status_icons.list[i].iconset,
                                   name |-> returned.iconName]

\* C30 (amended): the service rules are consulted only for an address
\* without node or with useServicesIcons set; then, no custom rule applying,
\* the first matching service rule whose icon set holds the icon gives the
\* icon; for an address with a node and useServicesIcons off, or when no
\* service rule qualifies, the icon of the global factory is returned.
C30_FirstServiceRuleIfConsulted ==
    returned.fn = "jid2icon" /\ customCandidates = {} =>
       IF serviceCandidates # {}
       THEN \E i \in serviceCandidates :
               /\ \A j \in serviceCandidates : i <= j
               /\ returned.value = [iconset |-> status_icons.list[i].iconset,
                                    name |-> returned.iconName]
       ELSE returned.value = [iconset |-> "IconsetFactory", name |-> returned.iconName]

\* two service rules match an address with a node, useServicesIcons is set,
\* both icon sets hold the icon and differ: the first rule's icon is returned
C30_Witness ==
    /\ returned.fn = "jid2icon"
    /\ returned.jid.node # << >>
    /\ status_icons.useServicesIcons
    /\ customCandidates = {}
    /\ serviceCandidates = {1, 2}
    /\ status_icons.list[1].iconset # status_icons.list[2].iconset
    /\ returned.value.iconset = status_icons.list[1].iconset

-----------------------------------------------------------------------------
(* caps2client: QMap keeps its keys in the order of QString::operator<,    *)
(* which compares code units; characters are code units here.              *)

\* QString a < b
less(a, b) ==
    \E i \in 1..Len(b) :
       /\ \A j \in 1..(i - 1) : j <= Len(a) /\ a[j] = b[j]
       /\ i > Len(a) \/ a[i] < b[i]

\* the least of a non-empty set of texts
least(K) == CHOOSE k \in K : \A h \in K : h = k \/ less(k, h)

\* the greatest of a non-empty set of texts
greatest(K) == CHOOSE k \in K : \A h \in K : h = k \/ less(h, k)

\* the loop over ics searching every inside text from the start of name
firstCheck_fromStart(ics, name, from) ==
    LET M == { i \in 1..Len(ics) :
                 \A n \in 1..Len(ics[i].inside) :
                    indexOf(name, ics[i].inside[n], 0) # -1 }
    IN  IF M = {} THEN "" ELSE firstOf(ics, M).icon

\* the icon of the first check of ics that has no inside texts or whose
\* inside texts all occur in name at or after position from; "" if none
firstCheck(ics, name, from) ==
    LET M == { i \in 1..Len(ics) :
                 \A n \in 1..Len(ics[i].inside) :
                    indexOf(name, ics[i].inside[n], from) # -1 }
    IN  IF M = {} THEN "" ELSE firstOf(ics, M).icon

\* PsiIconset::caps2client: the key at lowerBound(name), or else the key
\* just before it, is tried as a prefix of name
caps2client(c2i, name) ==
    LET atOrAfter == { k \in DOMAIN c2i : k = name \/ less(name, k) }
        before    == { k \in DOMAIN c2i : less(k, name) }
    IN  IF DOMAIN c2i = {} THEN ""
        ELSE IF atOrAfter # {} /\ startsWith(name, least(atOrAfter))
        THEN firstCheck(c2i[least(atOrAfter)], name, Len(least(atOrAfter)))
        ELSE IF before # {} /\ startsWith(name, greatest(before))
        THEN firstCheck(c2i[greatest(before)], name, Len(greatest(before)))
        ELSE ""

-----------------------------------------------------------------------------
(* SpecCaps: caps2client over small rule tables and names.                 *)

CapsMaxLen  == 3   \* characters of a name; a registered prefix is shorter
CapsMaxKeys == 2   \* prefixes registered by client_icons.txt

\* '+' and 'p'
CapsChars == { 43, 112 }

\* "~", the end boundary element
Boundary == << 126 >>

\* std::sort(checkList.begin(), checkList.end(), a.inside.size() > b.inside.size()):
\* the orders the sort may leave (checks with equally many inside texts in
\* any order)
sortedChecks(checkList) ==
    { [ i \in 1..Len(checkList) |-> checkList[perm[i]] ] :
        perm \in { q \in [1..Len(checkList) -> 1..Len(checkList)] :
                     /\ \A i, j \in 1..Len(checkList) : q[i] = q[j] => i = j
                     /\ \A i, j \in 1..Len(checkList) :
                           i < j => Len(checkList[q[i]].inside) >= Len(checkList[q[j]].inside) } }

\* the table as loadClients leaves it: empty if client_icons.txt could not
\* be read, else the prefixes of the file and the boundary element
InitCaps ==
    /\ InitIdleDialog
    /\ status_icons = [useServicesIcons |-> FALSE, list |-> << >>, customList |-> << >>]
    /\ iconsetRoster = << >>
    /\ \/ client2icon = << >>
       \/ \E K \in SUBSET (SeqsUpTo(CapsChars, CapsMaxLen - 1) \ { << >> }) :
             /\ Cardinality(K) <= CapsMaxKeys
             /\ \E f \in [K -> UNION { sortedChecks(checkList) : checkList \in
                   \* the check lists of a prefix, in the order of the lines of
                   \* client_icons.txt
                   { << [icon |-> "psi", inside |-> << >>] >>,
                     << [icon |-> "psi-plus", inside |-> << << 43 >> >>],
                        [icon |-> "psi", inside |-> << >>],
                        [icon |-> "psi-fork-plus", inside |-> << << 112 >>, << 43 >> >>] >> } }] :
                   client2icon = [k \in K \cup {Boundary} |->
                                     IF k = Boundary THEN << >> ELSE f[k]]
    /\ returned = NoCall

Caps2Client ==
    \E name \in SeqsUpTo(CapsChars, CapsMaxLen) :
       /\ returned' = [fn |-> "caps2client", name |-> name,
                       value |-> caps2client(client2icon, name)]
       /\ UNCHANGED << dlgVars, status_icons, iconsetRoster, client2icon >>

SpecCaps == InitCaps /\ [][Caps2Client]_vars

\* the registered prefixes that the name of the last call starts with
registeredPrefixes ==
    { k \in DOMAIN client2icon : startsWith(returned.name, k) }

\* C19: caps2client classifies the name by the check list of the longest
\* registered prefix the name starts with; whenever some registered prefix
\* is a prefix of the name, that list is consulted.
C19_LongestPrefix ==
    returned.fn = "caps2client" =>
        returned.value =
           IF registeredPrefixes = {} THEN ""
           ELSE LET longest == CHOOSE k \in registeredPrefixes :
                                  \A h \in registeredPrefixes : Len(h) <= Len(k)
                IN  firstCheck(client2icon[longest], returned.name, Len(longest))

-----------------------------------------------------------------------------
(* OptionsTreeWriter: the options tree written as a stream of             *)
(* QXmlStreamWriter calls.                                                 *)

WriterMaxKeys == 2   \* keys of one map of a tree node

\* the keys that occur, in the order of QString::operator<
WriterNames == <<"a", "b", "c">>

\* one call of the QXmlStreamWriter: writeStartElement(name),
\* writeAttribute(name, text), writeCharacters(text), writeEndElement()
Call(op, name, text) == [op |-> op, name |-> name, text |-> text]

\* the keys() of a map of the tree: ascending
keys(map) == SelectSeq(WriterNames, LAMBDA k : k \in DOMAIN map)

\* what the calls of a for loop write, one after the other
RECURSIVE flatten(_)
flatten(parts) == IF parts = << >> THEN << >> ELSE Head(parts) \o flatten(Tail(parts))

\* OptionsTreeWriter::writeVariant.  A byte array and a key sequence are
\* written like any other value, as one writeCharacters of their text
RECURSIVE writeVariant(_)
writeVariant(variant) ==
    LET writeTextElement(name, text) ==
           << Call("start", name, ""), Call("chars", "", text), Call("end", "", "") >>
    IN
    << Call("attr", "type", variant.type) >> \o
    CASE variant.type = "QStringList" ->
            flatten([ i \in 1..Len(variant.strings) |->
                        << Call("start", "item", ""), Call("chars", "", variant.strings[i]),
                           Call("end", "", "") >> ])
      [] variant.type = "QVariantList" ->
            flatten([ i \in 1..Len(variant.list) |->
                        << Call("start", "item", "") >>
                        \o writeVariant(variant.list[i])
                        \o << Call("end", "", "") >> ])
      [] variant.type = "QSize" ->
            writeTextElement("width", ToString(variant.numbers[1]))
            \o writeTextElement("height", ToString(variant.numbers[2]))
      [] variant.type = "QRect" ->
            writeTextElement("x", ToString(variant.numbers[1]))
            \o writeTextElement("y", ToString(variant.numbers[2]))
            \o writeTextElement("width", ToString(variant.numbers[3]))
            \o writeTextElement("height", ToString(variant.numbers[4]))
      [] OTHER -> << Call("chars", "", variant.text) >>

\* OptionsTreeWriter::readUnknownTree with the reader at token p (a start
\* element): what it writes, and where it leaves the reader.  The loop is
\* readUnknownLoop; QXmlStreamReader::atEnd() holds at the end of the
\* document and after an error
RECURSIVE readUnknownTree(_, _)
RECURSIVE readUnknownLoop(_, _, _)
readUnknownLoop(reader, p, out) ==
    IF reader[p].type \in {"EndDocument", "Invalid"} THEN [out |-> out, p |-> p]
    ELSE LET out1 == Append(out, Call("chars", "", reader[p].text))
         IN  IF reader[p + 1].type = "EndElement" THEN [out |-> out1, p |-> p + 1]
             ELSE IF reader[p + 1].type = "StartElement"
             THEN LET child == readUnknownTree(reader, p + 1)
                  IN  readUnknownLoop(reader, child.p, out1 \o child.out)
             ELSE readUnknownLoop(reader, p + 1, out1)

readUnknownTree(reader, p) ==
    LET r == readUnknownLoop(reader, p,
                 << Call("start", reader[p].name, "") >>
                 \o [ i \in 1..Len(reader[p].attrs) |->
                        Call("attr", reader[p].attrs[i][1], reader[p].attrs[i][2]) ])
    IN  [out |-> Append(r.out, Call("end", "", "")), p |-> r.p]

\* OptionsTreeWriter::writeUnknown from token p on (p = 0: nothing read yet)
RECURSIVE writeUnknown(_, _)
writeUnknown(reader, p) ==
    IF p > 0 /\ reader[p].type \in {"EndDocument", "Invalid"} THEN << >>
    ELSE IF reader[p + 1].type = "StartElement"
    THEN LET r == readUnknownTree(reader, p + 1)
         IN  r.out \o writeUnknown(reader, r.p)
    ELSE writeUnknown(reader, p + 1)

\* writeTree with the second loop (the values) before the first (the trees)
RECURSIVE writeTree_valuesFirst(_)
writeTree_valuesFirst(tree) ==
    flatten([ i \in 1..Len(keys(tree.values_)) |->
                << Call("start", keys(tree.values_)[i], "") >>
                \o (IF keys(tree.values_)[i] \in DOMAIN tree.comments_
                    THEN << Call("attr", "comment", tree.comments_[keys(tree.values_)[i]]) >>
                    ELSE << >>)
                \o writeVariant(tree.values_[keys(tree.values_)[i]])
                \o << Call("end", "", "") >> ])
    \o flatten([ i \in 1..Len(keys(tree.trees_)) |->
                << Call("start", keys(tree.trees_)[i], "") >>
                \o (IF keys(tree.trees_)[i] \in DOMAIN tree.comments_
                    THEN << Call("attr", "comment", tree.comments_[keys(tree.trees_)[i]]) >>
                    ELSE << >>)
                \o writeTree_valuesFirst(tree.trees_[keys(tree.trees_)[i]])
                \o << Call("end", "", "") >> ])
    \o flatten([ i \in 1..Len(keys(tree.unknowns2_)) |->
                writeUnknown(tree.unknowns2_[keys(tree.unknowns2_)[i]], 0) ])

\* OptionsTreeWriter::writeTree: unknowns2_ holds each fragment as the
\* tokens the QXmlStreamReader gives for its text
RECURSIVE writeTree(_)
writeTree(tree) ==
    flatten([ i \in 1..Len(keys(tree.trees_)) |->
                << Call("start", keys(tree.trees_)[i], "") >>
                \o (IF keys(tree.trees_)[i] \in DOMAIN tree.comments_
                    THEN << Call("attr", "comment", tree.comments_[keys(tree.trees_)[i]]) >>
                    ELSE << >>)
                \o writeTree(tree.trees_[keys(tree.trees_)[i]])
                \o << Call("end", "", "") >> ])
    \o flatten([ i \in 1..Len(keys(tree.values_)) |->
                << Call("start", keys(tree.values_)[i], "") >>
                \o (IF keys(tree.values_)[i] \in DOMAIN tree.comments_
                    THEN << Call("attr", "comment", tree.comments_[keys(tree.values_)[i]]) >>
                    ELSE << >>)
                \o writeVariant(tree.values_[keys(tree.values_)[i]])
                \o << Call("end", "", "") >> ])
    \o flatten([ i \in 1..Len(keys(tree.unknowns2_)) |->
                writeUnknown(tree.unknowns2_[keys(tree.unknowns2_)[i]], 0) ])

\* an options tree: the root has up to WriterMaxKeys sub-trees, values and
\* unknown fragments; the sub-trees have values, a sub-tree and a fragment
\* of their own; "b" has a comment
InitWriter ==
    /\ InitIdleDialog
    /\ status_icons = [useServicesIcons |-> FALSE, list |-> << >>, customList |-> << >>]
    /\ iconsetRoster = << >>
    /\ client2icon = << >>
    /\ LET \* a QVariant: typeName(), toString(), toStringList(), toList(), and
           \* the numbers of a QSize (width, height) or a QRect (x, y, width, height)
           Variant(type, text, strings, list, numbers) ==
              [type |-> type, text |-> text, strings |-> strings, list |-> list,
               numbers |-> numbers]
           \* a token of the QXmlStreamReader: tokenType(), name(), attributes(), text()
           Token(type, name, attrs, text) ==
              [type |-> type, name |-> name, attrs |-> attrs, text |-> text]
           string   == Variant("QString", "x", << >>, << >>, << >>)
           size     == Variant("QSize", "", << >>, << >>, <<3, 4>>)
           Variants == { string,
                         Variant("QStringList", "", <<"p", "q">>, << >>, << >>),
                         Variant("QVariantList", "", << >>, <<string, size>>, << >>),
                         Variant("QRect", "", << >>, << >>, <<1, 2, 3, 4>>) }
           \* <u k="v">t<w/>s</u>
           nested   == << Token("StartDocument", "", << >>, ""),
                          Token("StartElement", "u", << <<"k", "v">> >>, ""),
                          Token("Characters", "", << >>, "t"),
                          Token("StartElement", "w", << >>, ""),
                          Token("EndElement", "w", << >>, ""),
                          Token("Characters", "", << >>, "s"),
                          Token("EndElement", "u", << >>, ""),
                          Token("EndDocument", "", << >>, "") >>
           \* <v/>
           empty    == << Token("StartDocument", "", << >>, ""),
                          Token("StartElement", "v", << >>, ""),
                          Token("EndElement", "v", << >>, ""),
                          Token("EndDocument", "", << >>, "") >>
           Names    == { WriterNames[i] : i \in 1..Len(WriterNames) }
           Maps(S)  == UNION { [K -> S] : K \in { J \in SUBSET Names :
                                                    Cardinality(J) <= WriterMaxKeys } }
           leaf     == [ trees_ |-> << >>, values_ |-> [k \in {"b"} |-> size],
                         comments_ |-> << >>, unknowns2_ |-> << >> ]
           inner    == [ trees_ |-> [k \in {"c"} |-> leaf],
                         values_ |-> [k \in {"a", "b"} |->
                                        IF k = "a" THEN string ELSE size],
                         comments_ |-> [k \in {"b"} |-> "note"],
                         unknowns2_ |-> [k \in {"a"} |-> nested] ]
       IN  \E trees_ \in Maps({leaf, inner}), values_ \in Maps(Variants),
              unknowns2_ \in Maps({nested, empty}) :
              /\ Cardinality(DOMAIN unknowns2_) + Cardinality(DOMAIN trees_) <= WriterMaxKeys
              /\ returned = [ fn |-> "tree",
                              tree |-> [ trees_ |-> trees_, values_ |-> values_,
                                         comments_ |-> [k \in {"b"} |-> "note"],
                                         unknowns2_ |-> unknowns2_ ] ]

\* writeTree(&options_->tree_)
WriteTree ==
    /\ returned.fn = "tree"
    /\ returned' = [ fn |-> "writeTree", tree |-> returned.tree,
                     value |-> writeTree(returned.tree) ]
    /\ UNCHANGED << dlgVars, status_icons, iconsetRoster, client2icon >>

SpecWriter == InitWriter /\ [][WriteTree]_vars

====
